---------------------------- MODULE Spec2Model ----------------------------
(***************************************************************************)
(* Semantic network (SemanticNetwork, src/semantic_network.py) and the     *)
(* inference engine built on it (InferenceEngine,                          *)
(* src/inference_engine.py).                                               *)
(*                                                                         *)
(* The source writes relation labels, node types and trace labels in       *)
(* Cyrillic; strings of this module are ASCII, so they are transliterated: *)
(*   "yavlyaetsya_podtipom" - is-subtype-of,  "imeet_simptom" - has-symptom*)
(*   "lechitsya" - treated-by.                                             *)
(*                                                                         *)
(* A Python dict is insertion ordered and re-assigning an existing key     *)
(* keeps the key's position: `nodes` is a sequence of [name, attrs]        *)
(* records with pairwise distinct names; attrs is a function from          *)
(* attribute keys to values.  `relations` is the list of triples.          *)
(*                                                                         *)
(* A confidence is the quotient of two small naturals computed by float    *)
(* division.  IEEE division is correctly rounded, so for the operands      *)
(* that occur here two quotients are equal (less) as floats exactly when   *)
(* they are equal (less) as rationals: a confidence is kept as the pair    *)
(* [num, den] and compared by cross multiplication.                        *)
(***************************************************************************)
EXTENDS Naturals, Sequences, FiniteSets, TLC

VARIABLES
    nodes,            \* SemanticNetwork.nodes
    relations,        \* SemanticNetwork.relations
    inference_trace,  \* InferenceEngine.inference_trace
    pc,               \* where the running call is: "idle", "loop", "done"
    call,             \* the operation last called, with its arguments
    queue,            \* is_subtype_of: local queue
    visited,          \* is_subtype_of: local visited
    ret,              \* that call's outcome: [raised, value]
    threads,          \* the callers that run concurrently: for each its
                      \* engine, its position in is_subtype_of and the
                      \* locals of that call
    trace_b,          \* inference_trace of a second InferenceEngine
    store_b           \* a second SemanticNetwork: whether its nodes
                      \* attribute is the first one's dict object, and its
                      \* relations list

vars == <<nodes, relations, inference_trace, pc, call, queue, visited, ret,
          threads, trace_b, store_b>>

\* what the operations of the first caller on the first store leave alone
others == <<threads, trace_b, store_b>>

store == <<nodes, relations>>

(***************************************************************************)
(* Bounds of the model.                                                    *)
(***************************************************************************)
\* relations a store built by add_relation holds at most
MaxRelations == 2
\* relations of a store a subtype query runs on
MaxHierarchy == 3
\* relations of a store a diagnosis runs on
MaxSymptomRels == 3
\* length of an observed-symptom list
MaxObserved == 2

IS_SUBTYPE == "yavlyaetsya_podtipom"
HAS_SYMPTOM == "imeet_simptom"
TREATED_BY == "lechitsya"

(***************************************************************************)
(* Sequence helpers.                                                       *)
(***************************************************************************)
Range(s) == {s[i] : i \in DOMAIN s}

SeqsUpTo(S, n) == UNION {[1..k -> S] : k \in 0..n}

RECURSIVE NamesOf(_)
NamesOf(ns) ==
    IF ns = <<>> THEN <<>> ELSE <<Head(ns).name>> \o NamesOf(Tail(ns))

(***************************************************************************)
(* SemanticNetwork                                                         *)
(***************************************************************************)
NodeNames == {nodes[i].name : i \in DOMAIN nodes}

\* name in self.nodes
HasNode(name) == name \in NodeNames

NodeIndex(name) == CHOOSE i \in DOMAIN nodes : nodes[i].name = name

\* {"type": node_type, **attributes}: a key of attributes wins over "type"
NodeDict(node_type, attributes) ==
    [k \in {"type"} \cup DOMAIN attributes |->
        IF k \in DOMAIN attributes THEN attributes[k] ELSE node_type]

\* self.nodes[node_name] = {...}: a new key goes last, an old key keeps its place
add_node(node_name, node_type, attributes) ==
    IF HasNode(node_name)
    THEN [nodes EXCEPT ![NodeIndex(node_name)].attrs =
              NodeDict(node_type, attributes)]
    ELSE Append(nodes, [name |-> node_name,
                        attrs |-> NodeDict(node_type, attributes)])

\* a slip: the target is not looked up
add_relation_raises_source_only(source, target) ==
    IF ~HasNode(source) THEN <<"ValueError", source>> ELSE <<>>

\* a slip: the source is not looked up
add_relation_raises_target_only(source, target) ==
    IF ~HasNode(target) THEN <<"ValueError", target>> ELSE <<>>

\* the two membership tests of add_relation: the error raised, <<>> when none
add_relation_raises(source, target) ==
    IF ~HasNode(source) THEN <<"ValueError", source>>
    ELSE IF ~HasNode(target) THEN <<"ValueError", target>>
    ELSE <<>>

\* self.relations.append((source, relation, target))
add_relation(source, relation, target) ==
    Append(relations, <<source, relation, target>>)

\* a slip: self.nodes.setdefault(node_name, {}) enters a missing name
nodes_after_setdefault(node_name) ==
    IF HasNode(node_name) THEN nodes
    ELSE Append(nodes, [name |-> node_name, attrs |-> <<>>])

\* the node table once self.nodes.get(node_name, {}) has returned: dict.get
\* hands out the default without storing it
nodes_after_get(node_name) == nodes

\* self.nodes.get(node_name, {})
get_node(node_name) ==
    IF HasNode(node_name) THEN nodes[NodeIndex(node_name)].attrs ELSE <<>>

get_relations_from(node_name) ==
    SelectSeq(relations, LAMBDA r : r[1] = node_name)

get_relations_to_by_source(node_name) ==
    SelectSeq(relations, LAMBDA r : r[1] = node_name)

get_relations_to(node_name) ==
    SelectSeq(relations, LAMBDA r : r[3] = node_name)

get_relations_by_type(relation_type) ==
    SelectSeq(relations, LAMBDA r : r[2] = relation_type)

\* attrs.get("type") == node_type, in the order of the node table
get_all_nodes_by_type(node_type) ==
    LET hit(n) == "type" \in DOMAIN n.attrs /\ n.attrs["type"] = node_type
    IN  NamesOf(SelectSeq(nodes, hit))

\* max_depth: int = 5
DefaultMaxDepth == 5

\* if depth > max_depth: return
dfs_too_deep(depth, max_depth) == depth > max_depth

\* a slip: the test is made only once two nodes are on the current path
dfs_seen_after_two(current, seen) ==
    current \in seen /\ Cardinality(seen) >= 2

\* if current in visited: return
dfs_seen(current, seen) == current \in seen

\* a slip: a node stays visited after its branch is left
dfs_leave_keep(current, seen) == seen

\* visited.remove(current)
dfs_leave(current, seen) == seen \ {current}

\* the nested function dfs of find_path and its for loop; st is
\* [paths, visited], the two variables the nested function shares
RECURSIVE dfs(_, _, _, _, _, _)
RECURSIVE dfs_for(_, _, _, _, _, _)
dfs(current, path, depth, end, max_depth, st) ==
    IF dfs_too_deep(depth, max_depth) THEN st
    ELSE IF current = end /\ path # <<>>
    THEN [st EXCEPT !.paths = Append(@, path)]
    ELSE IF dfs_seen(current, st.visited) THEN st
    ELSE LET entered == [st EXCEPT !.visited = @ \cup {current}]
             after == dfs_for(get_relations_from(current), path, depth,
                              end, max_depth, entered)
         IN  [after EXCEPT !.visited = dfs_leave(current, @)]

\* for relation in self.get_relations_from(current): path.append(relation);
\* dfs(target, path, depth + 1); path.pop()
dfs_for(rels, path, depth, end, max_depth, st) ==
    IF rels = <<>> THEN st
    ELSE LET relation == Head(rels)
             target == relation[3]
         IN  dfs_for(Tail(rels), path, depth, end, max_depth,
                     dfs(target, Append(path, relation), depth + 1,
                         end, max_depth, st))

find_path(start, end, max_depth) ==
    dfs(start, <<>>, 0, end, max_depth,
        [paths |-> <<>>, visited |-> {}]).paths

(***************************************************************************)
(* InferenceEngine: the trace                                              *)
(*                                                                         *)
(* A trace entry is [step, details]; details, a formatted string or a      *)
(* list in the source, is the sequence of the strings put into it.         *)
(***************************************************************************)
\* a slip: the query does not start from an empty trace, it goes on
\* writing to the one the engine holds
clear_trace_skipped == inference_trace

clear_trace == <<>>

\* a slip: the entry is put in front of the trace
add_trace_in_front(trace, step, details) ==
    <<[step |-> step, details |-> details]>> \o trace

add_trace(trace, step, details) ==
    Append(trace, [step |-> step, details |-> details])

(***************************************************************************)
(* InferenceEngine.is_subtype_of                                           *)
(*                                                                         *)
(* The state of a call is [pc, queue, visited, trace, value]: pc is "loop" *)
(* while the while loop runs and "done" once the call has returned value.  *)
(***************************************************************************)
RECURSIVE TargetsOf(_)
TargetsOf(rels) ==
    IF rels = <<>> THEN <<>> ELSE <<Head(rels)[3]>> \o TargetsOf(Tail(rels))

\* a slip: the entry names the relation from its target to its source
RECURSIVE LinkEntriesSwapped(_)
LinkEntriesSwapped(rels) ==
    IF rels = <<>> THEN <<>>
    ELSE <<[step |-> "Najdena svyaz",
            details |-> <<Head(rels)[3], Head(rels)[2], Head(rels)[1]>>]>>
             \o LinkEntriesSwapped(Tail(rels))

RECURSIVE LinkEntries(_)
LinkEntries(rels) ==
    IF rels = <<>> THEN <<>>
    ELSE <<[step |-> "Najdena svyaz", details |-> Head(rels)]>>
             \o LinkEntries(Tail(rels))

\* a slip: every outgoing relation is followed, whatever its label
hierarchy_links_any_label(current) == get_relations_from(current)

\* for rel in get_relations_from(current): if rel[1] == "yavlyaetsya_podtipom"
hierarchy_links(current) ==
    SelectSeq(get_relations_from(current), LAMBDA r : r[2] = IS_SUBTYPE)

\* a slip: the search starts at the parents of concept1, not at concept1
is_subtype_of_enter_strict(concept1, concept2) ==
    [pc |-> "loop", queue |-> TargetsOf(hierarchy_links(concept1)),
     visited |-> {}, value |-> FALSE,
     trace |-> add_trace(clear_trace, "Nachalo proverki",
                         <<concept1, concept2>>)]

\* is_subtype_of up to the while loop
is_subtype_of_enter(concept1, concept2) ==
    LET t1 == add_trace(clear_trace, "Nachalo proverki", <<concept1, concept2>>)
    IN  IF ~HasNode(concept1)
        THEN [pc |-> "done", queue |-> <<>>, visited |-> {}, value |-> FALSE,
              trace |-> add_trace(t1, "Oshibka", <<concept1>>)]
        ELSE IF ~HasNode(concept2)
        THEN [pc |-> "done", queue |-> <<>>, visited |-> {}, value |-> FALSE,
              trace |-> add_trace(t1, "Oshibka", <<concept2>>)]
        ELSE [pc |-> "loop", queue |-> <<concept1>>, visited |-> {},
              value |-> FALSE, trace |-> t1]

\* the while test and one pass through the loop body
bfs_iter_body(st, concept1, concept2, on_visited, skip_visited) ==
    IF st.queue = <<>>
    THEN [st EXCEPT !.pc = "done", !.value = FALSE,
              !.trace = add_trace(@, "Rezultat",
                                  <<concept1, "NE YAVLYAETSYA", concept2>>)]
    ELSE LET current == Head(st.queue)
             rest == Tail(st.queue)
             links == hierarchy_links(current)
             t1 == add_trace(st.trace, "Proverka uzla", <<current>>)
         IN  IF skip_visited /\ current \in st.visited
             THEN [st EXCEPT !.queue = rest, !.pc = on_visited]
             ELSE IF current = concept2
             THEN [st EXCEPT !.pc = "done", !.value = TRUE, !.queue = rest,
                       !.visited = @ \cup {current},
                       !.trace = add_trace(t1, "Rezultat",
                                     <<concept1, "YAVLYAETSYA", concept2>>)]
             ELSE [st EXCEPT !.queue = rest \o TargetsOf(links),
                       !.visited = @ \cup {current},
                       !.trace = t1 \o LinkEntries(links)]

\* a slip: a node dequeued a second time ends the loop (break for continue)
bfs_iter_break(st, concept1, concept2) ==
    LET st1 == bfs_iter_body(st, concept1, concept2, "exit", TRUE)
    IN  IF st1.pc = "exit"
        THEN [st1 EXCEPT !.pc = "done", !.value = FALSE,
                  !.trace = add_trace(@, "Rezultat",
                                <<concept1, "NE YAVLYAETSYA", concept2>>)]
        ELSE st1

\* a slip: the visited test is missing
bfs_iter_revisit(st, concept1, concept2) ==
    bfs_iter_body(st, concept1, concept2, "loop", FALSE)

\* while queue: ... (one iteration, or the exit of the loop)
bfs_iter(st, concept1, concept2) ==
    bfs_iter_body(st, concept1, concept2, "loop", TRUE)

RECURSIVE bfs_run(_, _, _)
bfs_run(st, concept1, concept2) ==
    IF st.pc = "done" THEN st
    ELSE bfs_run(bfs_iter(st, concept1, concept2), concept1, concept2)

\* the whole call: its final state
is_subtype_of(concept1, concept2) ==
    bfs_run(is_subtype_of_enter(concept1, concept2), concept1, concept2)

(***************************************************************************)
(* InferenceEngine.get_symptoms and diagnose_by_symptoms.  A call is one   *)
(* step; its outcome is [value, trace].                                    *)
(***************************************************************************)
RECURSIVE EntriesOf(_, _)
EntriesOf(step, names) ==
    IF names = <<>> THEN <<>>
    ELSE <<[step |-> step, details |-> <<Head(names)>>]>>
             \o EntriesOf(step, Tail(names))

get_symptoms(disease) ==
    LET t1 == add_trace(clear_trace, "Nachalo zaprosa",
                        <<"Poisk simptomov", disease>>)
        symptoms == TargetsOf(SelectSeq(get_relations_from(disease),
                                        LAMBDA r : r[2] = HAS_SYMPTOM))
    IN  IF ~HasNode(disease)
        THEN [value |-> <<>>,
              trace |-> add_trace(t1, "Oshibka", <<disease>>)]
        ELSE [value |-> symptoms,
              trace |-> add_trace(t1 \o EntriesOf("Najden simptom", symptoms),
                                  "Rezultat",
                                  <<"Najdeno simptomov",
                                    ToString(Len(symptoms))>>)]

\* a slip: the disease's symptoms filtered by the observed ones
matching_symptoms_of_disease(symptoms, disease_symptoms) ==
    SelectSeq(disease_symptoms, LAMBDA s : s \in Range(symptoms))

\* [s for s in symptoms if s in disease_symptoms]
matching_symptoms(symptoms, disease_symptoms) ==
    SelectSeq(symptoms, LAMBDA s : s \in Range(disease_symptoms))

\* a slip: the disease's distinct symptoms are counted
confidence_distinct(matching, disease_symptoms) ==
    [num |-> Len(matching), den |-> Cardinality(Range(disease_symptoms))]

\* len(matching_symptoms) / len(disease_symptoms) if disease_symptoms else 0
confidence(matching, disease_symptoms) ==
    IF disease_symptoms # <<>>
    THEN [num |-> Len(matching), den |-> Len(disease_symptoms)]
    ELSE [num |-> 0, den |-> 1]

\* x[1] of two result entries, as floats
ConfLess(c, d) == c.num * d.den < d.num * c.den
ConfEqual(c, d) == c.num * d.den = d.num * c.den

\* f"{confidence:.2%}": hundredths of a percent, rounded to nearest
FormatPercent(c) == ToString((20000 * c.num + c.den) \div (2 * c.den))

\* the for loop over the diseases: [results, trace]
RECURSIVE diagnose_loop(_, _, _)
diagnose_loop(diseases, symptoms, acc) ==
    IF diseases = <<>> THEN acc
    ELSE LET disease == Head(diseases)
             got == get_symptoms(disease)
             matching == matching_symptoms(symptoms, got.value)
             conf == confidence(matching, got.value)
         IN  diagnose_loop(Tail(diseases), symptoms,
                 IF matching # <<>>
                 THEN [results |-> Append(acc.results,
                                      [disease |-> disease, confidence |-> conf,
                                       matched |-> matching]),
                       trace |-> add_trace(got.trace, "Sovpadenie",
                                     <<disease, FormatPercent(conf)>>
                                         \o matching)]
                 ELSE [results |-> acc.results, trace |-> got.trace])

\* a slip: ascending sort, then reversed (equal keys end up swapped)
RECURSIVE sort_by_confidence_reversed(_)
sort_by_confidence_reversed(results) ==
    IF results = <<>> THEN <<>>
    ELSE LET sorted == sort_by_confidence_reversed(
                           SubSeq(results, 1, Len(results) - 1))
             x == results[Len(results)]
             before == SelectSeq(sorted,
                           LAMBDA y : ConfLess(x.confidence, y.confidence))
             after == SelectSeq(sorted,
                           LAMBDA y : ~ConfLess(x.confidence, y.confidence))
         IN  before \o <<x>> \o after

\* results.sort(key=lambda x: x[1], reverse=True): descending and stable
RECURSIVE sort_by_confidence(_)
sort_by_confidence(results) ==
    IF results = <<>> THEN <<>>
    ELSE LET sorted == sort_by_confidence(SubSeq(results, 1, Len(results) - 1))
             x == results[Len(results)]
             before == SelectSeq(sorted,
                           LAMBDA y : ~ConfLess(y.confidence, x.confidence))
             after == SelectSeq(sorted,
                           LAMBDA y : ConfLess(y.confidence, x.confidence))
         IN  before \o <<x>> \o after

diagnose_by_symptoms(symptoms) ==
    LET diseases == get_all_nodes_by_type("disease")
        t1 == add_trace(clear_trace, "Nachalo diagnostiki", symptoms)
        t2 == add_trace(t1, "Najdeny zabolevaniya", diseases)
        looped == diagnose_loop(diseases, symptoms,
                                [results |-> <<>>, trace |-> t2])
        results == sort_by_confidence(looped.results)
    IN  [value |-> results,
         trace |-> add_trace(looped.trace, "Rezultat diagnostiki",
                             <<"Najdeno vozmozhnyh zabolevanij",
                               ToString(Len(results))>>)]

\* a slip: the search stops one relation short of the default limit
find_path_default_short(start, end) ==
    find_path(start, end, DefaultMaxDepth - 1)

\* self.kb.find_path(concept1, concept2): max_depth takes its default
find_path_default(start, end) == find_path(start, end, DefaultMaxDepth)

\* no test that the two concepts are nodes of the store
find_connection(concept1, concept2) ==
    LET t1 == add_trace(clear_trace, "Nachalo poiska", <<concept1, concept2>>)
        paths == find_path_default(concept1, concept2)
    IN  [value |-> paths,
         trace |-> add_trace(t1, "Rezultat",
                             <<"Najdeno putej", ToString(Len(paths))>>)]

\* a slip: every relation leaving the disease counts as a treatment
treatment_links_any_label(disease) == get_relations_from(disease)

\* for rel in self.kb.get_relations_from(disease): if rel[1] == "lechitsya"
treatment_links(disease) ==
    SelectSeq(get_relations_from(disease), LAMBDA r : r[2] = TREATED_BY)

get_treatment(disease) ==
    LET t1 == add_trace(clear_trace, "Nachalo zaprosa",
                        <<"Poisk lecheniya", disease>>)
        treatments == TargetsOf(treatment_links(disease))
    IN  IF ~HasNode(disease)
        THEN [value |-> <<>>,
              trace |-> add_trace(t1, "Oshibka", <<disease>>)]
        ELSE [value |-> treatments,
              trace |-> add_trace(
                            t1 \o EntriesOf("Najden metod lecheniya",
                                            treatments),
                            "Rezultat",
                            <<"Najdeno metodov lecheniya",
                              ToString(Len(treatments))>>)]

\* a slip: the category is tested against the disease
disease_in_category_swapped(disease, category) ==
    is_subtype_of(category, disease)

\* self.is_subtype_of(disease, category): a whole nested query, which
\* clears the trace and writes its own
disease_in_category(disease, category) == is_subtype_of(disease, category)

\* a slip: the entries of each nested check are added to those already
\* written instead of replacing them
RECURSIVE category_loop_keeping(_, _, _)
category_loop_keeping(all_diseases, category, acc) ==
    IF all_diseases = <<>> THEN acc
    ELSE LET disease == Head(all_diseases)
             sub == disease_in_category(disease, category)
             kept == acc.trace \o sub.trace
         IN  category_loop_keeping(Tail(all_diseases), category,
                 IF sub.value
                 THEN [diseases |-> Append(acc.diseases, disease),
                       trace |-> add_trace(kept, "Najdeno zabolevanie",
                                           <<disease>>)]
                 ELSE [diseases |-> acc.diseases, trace |-> kept])

\* the for loop over all_diseases: [diseases, trace]
RECURSIVE category_loop(_, _, _)
category_loop(all_diseases, category, acc) ==
    IF all_diseases = <<>> THEN acc
    ELSE LET disease == Head(all_diseases)
             sub == disease_in_category(disease, category)
         IN  category_loop(Tail(all_diseases), category,
                 IF sub.value
                 THEN [diseases |-> Append(acc.diseases, disease),
                       trace |-> add_trace(sub.trace, "Najdeno zabolevanie",
                                           <<disease>>)]
                 ELSE [diseases |-> acc.diseases, trace |-> sub.trace])

get_diseases_by_category(category) ==
    LET t1 == add_trace(clear_trace, "Nachalo zaprosa",
                        <<"Poisk zabolevanij kategorii", category>>)
        looped == category_loop(get_all_nodes_by_type("disease"), category,
                                [diseases |-> <<>>, trace |-> t1])
    IN  IF ~HasNode(category)
        THEN [value |-> <<>>,
              trace |-> add_trace(t1, "Oshibka", <<category>>)]
        ELSE [value |-> looped.diseases,
              trace |-> add_trace(looped.trace, "Rezultat",
                                  <<"Najdeno zabolevanij",
                                    ToString(Len(looped.diseases))>>)]

\* the grouping loops of get_all_related_info: a mapping from each label
\* met to the list of the nodes at the other end (field 3 for outgoing
\* relations, field 1 for incoming ones), in the order of the relations
\* a slip: a name already listed under the label is not listed again
RECURSIVE group_by_type_unique(_, _, _)
group_by_type_unique(rels, other_end, acc) ==
    IF rels = <<>> THEN acc
    ELSE LET rel == Head(rels)
             rel_type == rel[2]
             started == IF rel_type \in DOMAIN acc THEN acc
                        ELSE acc @@ (rel_type :> <<>>)
         IN  group_by_type_unique(Tail(rels), other_end,
                 IF rel[other_end] \in Range(started[rel_type]) THEN started
                 ELSE [started EXCEPT ![rel_type] = Append(@, rel[other_end])])

RECURSIVE group_by_type(_, _, _)
group_by_type(rels, other_end, acc) ==
    IF rels = <<>> THEN acc
    ELSE LET rel == Head(rels)
             rel_type == rel[2]
             started == IF rel_type \in DOMAIN acc THEN acc
                        ELSE acc @@ (rel_type :> <<>>)
         IN  group_by_type(Tail(rels), other_end,
                 [started EXCEPT ![rel_type] = Append(@, rel[other_end])])

\* the dictionary returned is a record; the empty dictionary is <<>>
get_all_related_info(concept) ==
    LET t1 == add_trace(clear_trace, "Nachalo zaprosa",
                        <<"Sbor informacii", concept>>)
        info == [uzel |-> concept,
                 atributy |-> get_node(concept),
                 ishodyashchie_svyazi |->
                     group_by_type(get_relations_from(concept), 3, <<>>),
                 vhodyashchie_svyazi |->
                     group_by_type(get_relations_to(concept), 1, <<>>)]
    IN  IF ~HasNode(concept)
        THEN [value |-> <<>>,
              trace |-> add_trace(t1, "Oshibka", <<concept>>)]
        ELSE [value |-> info,
              trace |-> add_trace(t1, "Rezultat", <<"Informaciya sobrana">>)]

(***************************************************************************)
(* Building a store: every add_node and add_relation call, from the empty  *)
(* network.  The engine is not used.                                       *)
(***************************************************************************)
StoreNames == {"Gripp", "Kashel"}
NodeTypes == {"disease", "symptom"}
\* keyword arguments of add_node: none, severity=..., type=...
AttrChoices == {<<>>, [severity |-> "srednyaya"], [type |-> "category"]}
StoreLabels == {IS_SUBTYPE, HAS_SYMPTOM}
\* a name that is never a key of the node table
UnknownName == "Neizvestno"

NoReturn == [raised |-> FALSE, value |-> <<>>]

\* SemanticNetwork(), InferenceEngine(kb)
EngineIdle ==
    /\ inference_trace = <<>>
    /\ pc = "idle"
    /\ call = [op |-> "init", args |-> <<>>]
    /\ queue = <<>>
    /\ visited = {}
    /\ ret = NoReturn

\* the concurrent callers
Callers == {1, 2}

\* a caller bound to the engine e that has called nothing
IdleFrame(e) ==
    [engine |-> e, pc |-> "idle", args |-> <<>>, queue |-> <<>>,
     visited |-> {}, current |-> "", links |-> <<>>, value |-> FALSE]

\* a second SemanticNetwork() on which nothing was called
StoreBEmpty == [shares_nodes |-> FALSE, relations |-> <<>>]

\* no concurrent caller calls, the second engine has answered nothing and
\* the second store is not filled
Single ==
    /\ threads = [t \in Callers |-> IdleFrame(t)]
    /\ trace_b = <<>>
    /\ store_b = StoreBEmpty

Init ==
    /\ nodes = <<>>
    /\ relations = <<>>
    /\ EngineIdle
    /\ Single

AddNode ==
    \E name \in StoreNames, type \in NodeTypes, attributes \in AttrChoices :
        /\ nodes' = add_node(name, type, attributes)
        /\ call' = [op |-> "add_node", args |-> <<name, type, attributes>>]
        /\ ret' = NoReturn
        /\ UNCHANGED <<others, relations, inference_trace, pc, queue, visited>>

AddRelation ==
    \E source \in StoreNames, relation \in StoreLabels, target \in StoreNames :
        LET error == add_relation_raises(source, target)
        IN  /\ call' = [op |-> "add_relation",
                        args |-> <<source, relation, target>>]
            /\ IF error # <<>>
               THEN /\ ret' = [raised |-> TRUE, value |-> error]
                    /\ UNCHANGED relations
               ELSE /\ Len(relations) < MaxRelations
                    /\ relations' = add_relation(source, relation, target)
                    /\ ret' = NoReturn
            /\ UNCHANGED <<others, nodes, inference_trace, pc, queue, visited>>

\* kb.get_relations_from(n), kb.get_relations_to(n),
\* kb.get_relations_by_type(l): pure reads of the relation list
GetRelationsFrom ==
    \E node_name \in StoreNames \cup {UnknownName} :
        /\ call' = [op |-> "get_relations_from", args |-> <<node_name>>]
        /\ ret' = [raised |-> FALSE, value |-> get_relations_from(node_name)]
        /\ UNCHANGED <<others, store, inference_trace, pc, queue, visited>>

GetRelationsTo ==
    \E node_name \in StoreNames \cup {UnknownName} :
        /\ call' = [op |-> "get_relations_to", args |-> <<node_name>>]
        /\ ret' = [raised |-> FALSE, value |-> get_relations_to(node_name)]
        /\ UNCHANGED <<others, store, inference_trace, pc, queue, visited>>

GetRelationsByType ==
    \E relation_type \in StoreLabels \cup {TREATED_BY} :
        /\ call' = [op |-> "get_relations_by_type",
                    args |-> <<relation_type>>]
        /\ ret' = [raised |-> FALSE,
                   value |-> get_relations_by_type(relation_type)]
        /\ UNCHANGED <<others, store, inference_trace, pc, queue, visited>>

Next ==
    \/ AddNode
    \/ AddRelation
    \/ GetRelationsFrom
    \/ GetRelationsTo
    \/ GetRelationsByType

Spec == Init /\ [][Next]_vars

\* C9: an add_relation call naming a source or a target that is not a key of
\* the node table raises ValueError and leaves the node table and the
\* relation list as they were.
C9_FailedAddRelationChangesNothing ==
    [][(/\ call'.op = "add_relation"
        /\ \/ call'.args[1] \notin NodeNames
           \/ call'.args[3] \notin NodeNames)
       => /\ ret'.raised
          /\ ret'.value[1] = "ValueError"
          /\ nodes' = nodes
          /\ relations' = relations]_vars

\* a call with a known source and an unknown target was refused, on a store
\* that already holds a relation
C9_Witness ==
    /\ call.op = "add_relation"
    /\ ret.raised
    /\ call.args[1] \in NodeNames
    /\ call.args[3] \notin NodeNames
    /\ Len(relations) >= 1

\* C10: in every store built by add_node and add_relation calls, the source
\* and the target of every relation are keys of the node table.
C10_RelationEndpointsExist ==
    \A i \in DOMAIN relations :
        relations[i][1] \in NodeNames /\ relations[i][3] \in NodeNames

\* the store is full of relations and a node they mention has just been
\* added again, with another type
C10_Witness ==
    /\ Len(relations) = MaxRelations
    /\ call.op = "add_node"
    /\ \E i \in DOMAIN relations :
           /\ relations[i][1] = call.args[1]
           /\ relations[i][2] = HAS_SYMPTOM
           /\ get_node(call.args[1])["type"] = "symptom"

\* C11: add_node(name, type, attributes) never fails; afterwards the node
\* table maps name to exactly the tag "type" -> type plus the given
\* attributes, whatever the node held before; every other node's entry is
\* unchanged and so is the relation list.
C11_AddNodeOverwrites ==
    [][call'.op = "add_node" =>
        LET name == call'.args[1]
            node_type == call'.args[2]
            attributes == call'.args[3]
            at == CHOOSE i \in DOMAIN nodes' : nodes'[i].name = name
            entry == nodes'[at].attrs
        IN  /\ ~ret'.raised
            /\ \E i \in DOMAIN nodes' : nodes'[i].name = name
            /\ DOMAIN entry = {"type"} \cup DOMAIN attributes
            /\ entry["type"] = node_type
            /\ \A k \in DOMAIN attributes : entry[k] = attributes[k]
            /\ \A i \in DOMAIN nodes :
                   nodes[i].name # name => nodes'[i] = nodes[i]
            /\ Len(nodes') = IF HasNode(name) THEN Len(nodes)
                                              ELSE Len(nodes) + 1
            /\ relations' = relations]_vars

\* the relations of the list at the indices S, in increasing index order
SubseqAt(S) ==
    [k \in 1..Cardinality(S) |->
        relations[CHOOSE i \in S : Cardinality({j \in S : j <= i}) = k]]

\* the indices of the relations whose field (1 source, 2 label, 3 target)
\* equals x
IndicesWhere(field, x) == {i \in DOMAIN relations : relations[i][field] = x}

\* C12: get_relations_from(n), get_relations_to(n) and
\* get_relations_by_type(l) return exactly the relations whose source,
\* target, label equals the argument, in insertion order and with their
\* multiplicity.
C12_LookupsFilterInOrder ==
    /\ call.op = "get_relations_from"
          => ret.value = SubseqAt(IndicesWhere(1, call.args[1]))
    /\ call.op = "get_relations_to"
          => ret.value = SubseqAt(IndicesWhere(3, call.args[1]))
    /\ call.op = "get_relations_by_type"
          => ret.value = SubseqAt(IndicesWhere(2, call.args[1]))

\* a relation added twice comes back twice from a lookup by target whose
\* source is another node
C12_Witness ==
    /\ call.op = "get_relations_to"
    /\ Len(ret.value) = 2
    /\ ret.value[1] = ret.value[2]
    /\ ret.value[1][1] # call.args[1]

(***************************************************************************)
(* Subtype queries: is_subtype_of, one loop iteration a step, on every     *)
(* store of three nodes with up to MaxHierarchy relations (hierarchy and   *)
(* has-symptom relations, duplicates and cycles included).                 *)
(***************************************************************************)
HierNames == {"Gripp", "Infekcionnoe", "Zabolevanie"}
HierNodes ==
    <<[name |-> "Zabolevanie", attrs |-> [type |-> "category"]],
      [name |-> "Infekcionnoe", attrs |-> [type |-> "category"]],
      [name |-> "Gripp", attrs |-> [type |-> "disease"]]>>
\* every hierarchy relation, and the has-symptom relations of the disease
HierTriples ==
    (HierNames \X {IS_SUBTYPE} \X HierNames)
        \cup ({"Gripp"} \X {HAS_SYMPTOM} \X HierNames)

\* the while loop of is_subtype_of appends at most one entry per node and one
\* per relation to the opening entry: no run of it comes near this length
TraceCap == 2 * (Len(relations) + Cardinality(NodeNames) + 2)

InitSubtype ==
    /\ nodes = HierNodes
    /\ relations \in SeqsUpTo(HierTriples, MaxHierarchy)
    /\ EngineIdle
    /\ Single

BfsState ==
    [pc |-> pc, queue |-> queue, visited |-> visited,
     value |-> ret.value, trace |-> inference_trace]

SetBfsState(st) ==
    /\ pc' = st.pc
    /\ queue' = st.queue
    /\ visited' = st.visited
    /\ inference_trace' = st.trace
    /\ ret' = [raised |-> FALSE, value |-> st.value]

IsSubtypeOfCall ==
    /\ pc \in {"idle", "done"}
    /\ \E concept1, concept2 \in HierNames \cup {UnknownName} :
           /\ call' = [op |-> "is_subtype_of", args |-> <<concept1, concept2>>]
           /\ SetBfsState(is_subtype_of_enter(concept1, concept2))
    /\ UNCHANGED <<others, nodes, relations>>

BfsIter ==
    /\ pc = "loop"
    /\ call.op = "is_subtype_of"
    /\ Len(inference_trace) < TraceCap
    /\ SetBfsState(bfs_iter(BfsState, call.args[1], call.args[2]))
    /\ UNCHANGED <<others, nodes, relations, call>>

NextSubtype == IsSubtypeOfCall \/ BfsIter

SpecSubtype == InitSubtype /\ [][NextSubtype]_vars

\* One call on a fresh engine, run to its end, on every store of hierarchy
\* relations (and one has-symptom relation, which the loop must skip).  The
\* loop is sequential code: once entered it keeps running, which is the
\* fairness stated.
RunTriples ==
    (HierNames \X {IS_SUBTYPE} \X HierNames)
        \cup {<<"Gripp", HAS_SYMPTOM, "Zabolevanie">>}

\* the caller's slot for the result holds a boolean from the start: the
\* only query of this specification returns booleans
InitSubtypeRun ==
    /\ nodes = HierNodes
    /\ relations \in SeqsUpTo(RunTriples, MaxHierarchy)
    /\ inference_trace = <<>>
    /\ pc = "idle"
    /\ call = [op |-> "init", args |-> <<>>]
    /\ queue = <<>>
    /\ visited = {}
    /\ ret = [raised |-> FALSE, value |-> FALSE]
    /\ Single

FirstCall == pc = "idle" /\ IsSubtypeOfCall

NextSubtypeRun == FirstCall \/ BfsIter

SpecSubtypeRun ==
    InitSubtypeRun /\ [][NextSubtypeRun]_vars /\ WF_vars(BfsIter)

\* the hierarchy edges of the store and what is reachable along them
HierEdges ==
    {<<relations[i][1], relations[i][3]>> :
        i \in {j \in DOMAIN relations : relations[j][2] = IS_SUBTYPE}}

RECURSIVE ReachFrom(_)
ReachFrom(S) ==
    LET next == S \cup {e[2] : e \in {d \in HierEdges : d[1] \in S}}
    IN  IF next = S THEN S ELSE ReachFrom(next)

Returned(op) == pc = "done" /\ call.op = op

\* C1: is_subtype_of(a, b) on two nodes of the store returns true exactly when
\* b is reachable from a along zero or more is-subtype-of relations.
C1_SubtypeIffReachable ==
    (/\ Returned("is_subtype_of")
     /\ call.args[1] \in NodeNames
     /\ call.args[2] \in NodeNames)
    => (ret.value <=> call.args[2] \in ReachFrom({call.args[1]}))

\* false was returned although a has-symptom relation leads from a to b and a
\* hierarchy relation leaves a
C1_Witness ==
    /\ Returned("is_subtype_of")
    /\ ret.value = FALSE
    /\ call.args[1] \in NodeNames
    /\ \E i, j \in DOMAIN relations :
           /\ relations[i] = <<call.args[1], HAS_SYMPTOM, call.args[2]>>
           /\ relations[j][1] = call.args[1]
           /\ relations[j][2] = IS_SUBTYPE

\* C2: is_subtype_of(a, a) is true for every node a of the store.
C2_SubtypeReflexive ==
    (/\ Returned("is_subtype_of")
     /\ call.args[1] = call.args[2]
     /\ call.args[1] \in NodeNames)
    => ret.value = TRUE

\* is_subtype_of(a, a) returned true for a node without outgoing relations
C2_Witness ==
    /\ Returned("is_subtype_of")
    /\ call.args[1] = call.args[2]
    /\ ret.value = TRUE
    /\ get_relations_from(call.args[1]) = <<>>
    /\ Len(relations) = MaxHierarchy

\* C3: if is_subtype_of(a, b) and is_subtype_of(b, c) are true on a store,
\* the call is_subtype_of(a, c) on that store returns true.
C3_SubtypeTransitive ==
    Returned("is_subtype_of")
    => \A b \in HierNames \cup {UnknownName} :
          (/\ is_subtype_of(call.args[1], b).value
           /\ is_subtype_of(b, call.args[2]).value)
          => ret.value = TRUE

\* a, b, c distinct, a is a subtype of b and b of c, no relation from a to c
C3_Witness ==
    /\ Returned("is_subtype_of")
    /\ ret.value = TRUE
    /\ call.args[1] # call.args[2]
    /\ \A i \in DOMAIN relations :
           ~(relations[i][1] = call.args[1] /\ relations[i][3] = call.args[2])
    /\ \E b \in HierNames \ {call.args[1], call.args[2]} :
           /\ is_subtype_of(call.args[1], b).value
           /\ is_subtype_of(b, call.args[2]).value

\* C4: every call of is_subtype_of returns, cycles and duplicated relations
\* or not.
C4_SubtypeTerminates == (pc = "loop") ~> (pc = "done")

\* a call returned false after a search through a cycle of hierarchy
\* relations one of which is there twice
C4_Witness ==
    /\ Returned("is_subtype_of")
    /\ ret.value = FALSE
    /\ call.args[2] \in NodeNames
    /\ \E e \in HierEdges :
           e[1] = call.args[1] /\ e[1] # e[2] /\ e[1] \in ReachFrom({e[2]})
    /\ \E i, j \in DOMAIN relations :
           i # j /\ relations[i] = relations[j] /\ relations[i][2] = IS_SUBTYPE

(***************************************************************************)
(* Diagnosis: diagnose_by_symptoms on every store of two nodes that may be *)
(* diseases, in either insertion order, and two symptoms, with up to       *)
(* MaxSymptomRels relations (duplicates included), for every observed list *)
(* of up to MaxObserved names (repeats and unknown names included).        *)
(***************************************************************************)
DiagSymptoms == {"Kashel", "Nasmork"}
DiagTables ==
    {<<[name |-> o[1], attrs |-> [type |-> ta]],
       [name |-> o[2], attrs |-> [type |-> tb]],
       [name |-> "Kashel", attrs |-> [type |-> "symptom"]],
       [name |-> "Nasmork", attrs |-> [type |-> "symptom"]]>> :
        o \in {<<"Gripp", "ORVI">>, <<"ORVI", "Gripp">>},
        ta \in {"disease", "category"}, tb \in {"disease", "category"}}
DiagTriples ==
    ({"Gripp", "ORVI"} \X {HAS_SYMPTOM} \X DiagSymptoms)
        \cup {<<"Gripp", TREATED_BY, "Kashel">>,
              <<"Kashel", HAS_SYMPTOM, "Nasmork">>}
ObservedNames == DiagSymptoms \cup {UnknownName}

InitDiagnosis ==
    /\ nodes \in DiagTables
    /\ relations \in SeqsUpTo(DiagTriples, MaxSymptomRels)
    /\ EngineIdle
    /\ Single

Diagnose ==
    \E symptoms \in SeqsUpTo(ObservedNames, MaxObserved) :
        LET out == diagnose_by_symptoms(symptoms)
        IN  /\ call' = [op |-> "diagnose_by_symptoms", args |-> <<symptoms>>]
            /\ ret' = [raised |-> FALSE, value |-> out.value]
            /\ inference_trace' = out.trace
            /\ pc' = "done"
            /\ UNCHANGED <<others, nodes, relations, queue, visited>>

\* one diagnosis on a fresh engine
FirstDiagnose == pc = "idle" /\ Diagnose

NextDiagnosis == FirstDiagnose

SpecDiagnosis == InitDiagnosis /\ [][NextDiagnosis]_vars

\* the has-symptom relations leaving a node, as positions of the relation list
SymptomRels(n) ==
    {j \in DOMAIN relations :
        relations[j][1] = n /\ relations[j][2] = HAS_SYMPTOM}

SymptomsOf(n) == {relations[j][3] : j \in SymptomRels(n)}

\* C5: every confidence of a diagnosis lies in [0, 1].
C5_ConfidenceInUnitInterval ==
    Returned("diagnose_by_symptoms")
    => \A i \in DOMAIN ret.value :
          ret.value[i].confidence.num <= ret.value[i].confidence.den

\* C6: every entry's confidence is |matched| divided by the number of
\* has-symptom relations leaving its disease, as a rational number.
C6_ConfidenceIsRatio ==
    Returned("diagnose_by_symptoms")
    => \A i \in DOMAIN ret.value :
          LET e == ret.value[i]
              total == Cardinality(SymptomRels(e.disease))
          IN  /\ total > 0
              /\ e.confidence.den > 0
              /\ e.confidence.num * total = Len(e.matched) * e.confidence.den

\* a disease whose has-symptom relation is there twice got 1/2
C6_Witness ==
    /\ Returned("diagnose_by_symptoms")
    /\ \E i \in DOMAIN ret.value :
           LET e == ret.value[i]
           IN  /\ Cardinality(SymptomRels(e.disease)) = 2
               /\ Cardinality(SymptomsOf(e.disease)) = 1
               /\ Len(e.matched) = 1
               /\ ConfEqual(e.confidence, [num |-> 1, den |-> 2])

\* C7: a diagnosis is ordered by confidence, non-increasing, and entries of
\* equal confidence are in the order of their diseases in the node table.
C7_SortedStable ==
    Returned("diagnose_by_symptoms")
    => \A i, j \in DOMAIN ret.value :
          i < j =>
              /\ ~ConfLess(ret.value[i].confidence, ret.value[j].confidence)
              /\ ConfEqual(ret.value[i].confidence, ret.value[j].confidence)
                     => NodeIndex(ret.value[i].disease)
                            < NodeIndex(ret.value[j].disease)

\* two diseases tie, 1/1 against 2/2, and are returned in node order, ORVI
\* before Gripp
C7_Witness ==
    /\ Returned("diagnose_by_symptoms")
    /\ Len(ret.value) = 2
    /\ ret.value[1].disease = "ORVI"
    /\ ret.value[1].confidence.den # ret.value[2].confidence.den
    /\ ConfEqual(ret.value[1].confidence, ret.value[2].confidence)

\* C8: a diagnosis has exactly one entry for each node of type disease with
\* a has-symptom target among the observed names, none for any other node,
\* and each entry's matched list is the observed list filtered to the
\* disease's symptoms.
C8_EntriesExact ==
    Returned("diagnose_by_symptoms")
    => LET observed == call.args[1]
           value == ret.value
       IN  /\ \A i, j \in DOMAIN value :
                  value[i].disease = value[j].disease => i = j
           /\ {value[i].disease : i \in DOMAIN value}
                  = {n \in NodeNames :
                        /\ get_node(n)["type"] = "disease"
                        /\ SymptomsOf(n) \cap Range(observed) # {}}
           /\ \A i \in DOMAIN value :
                  value[i].matched
                      = SelectSeq(observed,
                            LAMBDA s : s \in SymptomsOf(value[i].disease))

\* one entry, its matched list in the observed order and against the order
\* of the relations, while a node that is not a disease has an observed
\* symptom too
C8_Witness ==
    /\ Returned("diagnose_by_symptoms")
    /\ Len(ret.value) = 1
    /\ ret.value[1].matched = <<"Kashel", "Nasmork">>
    /\ get_symptoms(ret.value[1].disease).value = <<"Nasmork", "Kashel">>
    /\ \E n \in NodeNames :
           /\ get_node(n)["type"] = "category"
           /\ SymptomsOf(n) \cap Range(call.args[1]) # {}

(***************************************************************************)
(* Path search: one find_path or find_connection call on a store.  The     *)
(* stores are every relation list of up to MaxPathRels relations over      *)
(* three nodes, the diamond of the medical knowledge base, a store where   *)
(* two branches meet in a node, and a chain longer than the default depth. *)
(***************************************************************************)
\* relations of a store a path search runs on
MaxPathRels == 3
\* largest max_depth argument of find_path
MaxDepthArg == 3

PathNames == {"Gripp", "Infekcionnoe", "Zabolevanie"}
\* the relations between two different nodes, a loop, and a relation with
\* another label between nodes that may be linked already
PathTriples ==
    {<<e[1], IS_SUBTYPE, e[2]>> :
        e \in {d \in PathNames \X PathNames : d[1] # d[2]}}
    \cup {<<"Gripp", IS_SUBTYPE, "Gripp">>,
          <<"Gripp", HAS_SYMPTOM, "Infekcionnoe">>}

\* create_medical_knowledge_base: the two ways from Gripp to Zabolevanie
DiamondStore ==
    [nodes |-> <<[name |-> "Zabolevanie", attrs |-> [type |-> "category"]],
                 [name |-> "Infekcionnoe", attrs |-> [type |-> "category"]],
                 [name |-> "Respiratornoe", attrs |-> [type |-> "category"]],
                 [name |-> "Gripp", attrs |-> [type |-> "disease"]]>>,
     relations |-> <<<<"Infekcionnoe", IS_SUBTYPE, "Zabolevanie">>,
                     <<"Respiratornoe", IS_SUBTYPE, "Zabolevanie">>,
                     <<"Gripp", IS_SUBTYPE, "Infekcionnoe">>,
                     <<"Gripp", IS_SUBTYPE, "Respiratornoe">>>>]

\* Infekcionnoe is explored from Gripp first, and met again by way of
\* Respiratornoe
RejoinStore ==
    [nodes |-> DiamondStore.nodes,
     relations |-> <<<<"Gripp", IS_SUBTYPE, "Infekcionnoe">>,
                     <<"Infekcionnoe", IS_SUBTYPE, "Zabolevanie">>,
                     <<"Gripp", IS_SUBTYPE, "Respiratornoe">>,
                     <<"Respiratornoe", IS_SUBTYPE, "Infekcionnoe">>>>]

ChainNames == <<"K0", "K1", "K2", "K3", "K4", "K5", "K6">>
\* K0 -> K1 -> ... -> K6: one relation more than the default depth
ChainStore ==
    [nodes |-> [i \in DOMAIN ChainNames |->
                   [name |-> ChainNames[i], attrs |-> [type |-> "concept"]]],
     relations |-> [i \in 1..(Len(ChainNames) - 1) |->
                       <<ChainNames[i], IS_SUBTYPE, ChainNames[i + 1]>>]]

PathStores ==
    {[nodes |-> HierNodes, relations |-> r] :
        r \in SeqsUpTo(PathTriples, MaxPathRels)}
    \cup {DiamondStore, RejoinStore, ChainStore}

InitPaths ==
    /\ \E s \in PathStores : nodes = s.nodes /\ relations = s.relations
    /\ EngineIdle
    /\ Single

FindPath ==
    \E start \in NodeNames \cup {UnknownName},
       end \in NodeNames \cup {UnknownName},
       max_depth \in 0..MaxDepthArg :
        /\ pc = "idle"
        /\ call' = [op |-> "find_path", args |-> <<start, end, max_depth>>]
        /\ ret' = [raised |-> FALSE,
                   value |-> find_path(start, end, max_depth)]
        /\ pc' = "done"
        /\ UNCHANGED <<others, store, inference_trace, queue, visited>>

FindConnection ==
    \E concept1 \in NodeNames \cup {UnknownName},
       concept2 \in NodeNames \cup {UnknownName} :
        LET out == find_connection(concept1, concept2)
        IN  /\ call' = [op |-> "find_connection",
                        args |-> <<concept1, concept2>>]
            /\ ret' = [raised |-> FALSE, value |-> out.value]
            /\ inference_trace' = out.trace
            /\ pc' = "done"
            /\ UNCHANGED <<others, store, queue, visited>>

\* one connection query on a fresh engine
FirstConnection == pc = "idle" /\ FindConnection

NextPaths == FindPath \/ FirstConnection

SpecPaths == InitPaths /\ [][NextPaths]_vars

\* the nodes a path of relations passes through: the source of its first
\* relation, then the target of each relation
NodesAlong(path) ==
    <<path[1][1]>> \o [i \in DOMAIN path |-> path[i][3]]

\* path is 1..max_depth relations of the list, chained from start to end
IsChain(path, start, end, max_depth) ==
    /\ Len(path) >= 1
    /\ Len(path) <= max_depth
    /\ \A i \in DOMAIN path : path[i] \in Range(relations)
    /\ path[1][1] = start
    /\ \A i \in 1..(Len(path) - 1) : path[i][3] = path[i + 1][1]
    /\ path[Len(path)][3] = end

\* C13 as stated: for all start, end (start = end included) and max_depth,
\* every path find_path returns is a chain of 1..max_depth relations of the
\* list from start to end on which no node occurs twice.
C13_PathsAreSimple ==
    Returned("find_path") =>
        \A k \in DOMAIN ret.value :
            LET path == ret.value[k]
                along == NodesAlong(path)
            IN  /\ IsChain(path, call.args[1], call.args[2], call.args[3])
                /\ \A i \in DOMAIN along : \A j \in DOMAIN along :
                       i # j => along[i] # along[j]

\* C13 amended: every path find_path returns is a chain of 1..max_depth
\* relations of the list from start to end; no node occurs twice on it,
\* except that for start = end the path is a cycle, whose first and last
\* node are both start (a self-loop on start is such a cycle of one
\* relation).
C13_PathsAreSimpleOrCycles ==
    Returned("find_path") =>
        \A k \in DOMAIN ret.value :
            LET path == ret.value[k]
                along == NodesAlong(path)
            IN  /\ IsChain(path, call.args[1], call.args[2], call.args[3])
                /\ \A i \in DOMAIN along : \A j \in DOMAIN along :
                       (i < j /\ along[i] = along[j])
                           => /\ i = 1
                              /\ j = Len(along)
                              /\ call.args[1] = call.args[2]

\* find_path(n, n) returned a cycle through a second node, and it was cut
\* nowhere by the depth limit
C13_Witness ==
    /\ Returned("find_path")
    /\ call.args[1] = call.args[2]
    /\ call.args[3] = Len(relations)
    /\ \E k \in DOMAIN ret.value : Len(ret.value[k]) >= 2

\* Paths as sequences of indices into the relation list.
PathTarget(p) == relations[p[Len(p)]][3]
PathSources(p) == {relations[p[i]][1] : i \in DOMAIN p}
OutIndices(node_name) ==
    {i \in DOMAIN relations : relations[i][1] = node_name}

\* the walks of k relations from start that stay simple: every walk that
\* has not reached end, and whose last node is not on it already, extended
\* by one outgoing relation
RECURSIVE Walks(_, _, _)
Walks(start, end, k) ==
    IF k = 1 THEN {<<i>> : i \in OutIndices(start)}
    ELSE LET open == {p \in Walks(start, end, k - 1) :
                         /\ PathTarget(p) # end
                         /\ PathTarget(p) \notin PathSources(p)}
         IN  UNION {{Append(p, i) : i \in OutIndices(PathTarget(p))} :
                       p \in open}

\* every simple path (or simple cycle, for start = end) of 1..max_depth
\* relations from start to end
SimplePaths(start, end, max_depth) ==
    UNION {{p \in Walks(start, end, k) : PathTarget(p) = end} :
              k \in 1..max_depth}

\* depth-first order: by the insertion index of the first relation in which
\* two paths differ
LexLess(p, q) ==
    \E i \in DOMAIN p \cap DOMAIN q :
        /\ p[i] < q[i]
        /\ \A j \in 1..(i - 1) : p[j] = q[j]

ExpectedPaths(start, end, max_depth) ==
    LET P == SimplePaths(start, end, max_depth)
        kth(k) == CHOOSE p \in P : Cardinality({q \in P : LexLess(q, p)}) = k - 1
    IN  [k \in 1..Cardinality(P) |->
            [i \in DOMAIN kth(k) |-> relations[kth(k)[i]]]]

\* C14: find_path returns every simple path of outgoing relations from start
\* to end with 1..max_depth relations, paths of exactly max_depth relations
\* and paths through a node explored on an abandoned branch included, in
\* depth-first order of relation insertion.
C14_FindPathExhaustive ==
    Returned("find_path") =>
        ret.value = ExpectedPaths(call.args[1], call.args[2], call.args[3])

\* two paths were returned, the second of exactly max_depth relations and
\* through a node the first path had passed
C14_Witness ==
    /\ Returned("find_path")
    /\ Len(ret.value) = 2
    /\ Len(ret.value[1]) = 2
    /\ Len(ret.value[2]) = call.args[3]
    /\ call.args[3] = 3
    /\ ret.value[1][1][3] = ret.value[2][2][3]

\* C15: find_connection(a, b) returns what find_path(a, b) returns with the
\* default depth limit 5; on the diamond Gripp -> Infekcionnoe ->
\* Zabolevanie, Gripp -> Respiratornoe -> Zabolevanie it returns exactly 2
\* paths of exactly 2 relations each.
C15_ConnectionIsDefaultSearch ==
    Returned("find_connection") =>
        /\ ret.value = ExpectedPaths(call.args[1], call.args[2], 5)
        /\ (/\ relations = DiamondStore.relations
            /\ call.args = <<"Gripp", "Zabolevanie">>)
               => /\ Len(ret.value) = 2
                  /\ \A k \in DOMAIN ret.value : Len(ret.value[k]) = 2

\* the diamond was searched from Gripp to Zabolevanie
C15_Witness ==
    /\ Returned("find_connection")
    /\ relations = DiamondStore.relations
    /\ call.args = <<"Gripp", "Zabolevanie">>
    /\ Len(ret.value) = 2

(***************************************************************************)
(* Category listing: one get_diseases_by_category call on a store of two   *)
(* diseases (in either order; ORVI may be a category instead) and one      *)
(* category, with up to MaxHierarchy relations.                            *)
(***************************************************************************)
CatNames == {"Gripp", "ORVI", "Respiratornoe"}
CatTables ==
    {<<[name |-> o[1], attrs |-> [type |-> IF o[1] = "ORVI" THEN t
                                          ELSE "disease"]],
       [name |-> o[2], attrs |-> [type |-> IF o[2] = "ORVI" THEN t
                                          ELSE "disease"]],
       [name |-> "Respiratornoe", attrs |-> [type |-> "category"]]>> :
        o \in {<<"Gripp", "ORVI">>, <<"ORVI", "Gripp">>},
        t \in {"disease", "category"}}
\* the hierarchy relations between different nodes, and a has-symptom
\* relation from a disease to the category
CatTriples ==
    {<<e[1], IS_SUBTYPE, e[2]>> :
        e \in {d \in CatNames \X CatNames : d[1] # d[2]}}
    \cup {<<"Gripp", HAS_SYMPTOM, "Respiratornoe">>}

InitCategory ==
    /\ nodes \in CatTables
    /\ relations \in SeqsUpTo(CatTriples, MaxHierarchy)
    /\ EngineIdle
    /\ Single

GetDiseasesByCategory ==
    \E category \in NodeNames \cup {UnknownName} :
        LET out == get_diseases_by_category(category)
        IN  /\ call' = [op |-> "get_diseases_by_category",
                        args |-> <<category>>]
            /\ ret' = [raised |-> FALSE, value |-> out.value]
            /\ inference_trace' = out.trace
            /\ pc' = "done"
            /\ UNCHANGED <<others, store, queue, visited>>

\* one category query on a fresh engine
FirstCategory == pc = "idle" /\ GetDiseasesByCategory

NextCategory == FirstCategory

SpecCategory == InitCategory /\ [][NextCategory]_vars

\* C16: for a category c that is a node, get_diseases_by_category(c) returns
\* exactly the nodes of type "disease" from which c is reachable along zero
\* or more is-subtype-of relations, each once, in the order of the node
\* table; a disease that is not a subtype of c is never returned.
C16_CategoryMembersExact ==
    (Returned("get_diseases_by_category") /\ HasNode(call.args[1])) =>
        LET c == call.args[1]
            member(n) == /\ n.attrs["type"] = "disease"
                         /\ c \in ReachFrom({n.name})
        IN  ret.value = NamesOf(SelectSeq(nodes, member))

\* one disease was returned, which reaches the category in two relations
\* by way of a category node that was not returned
C16_Witness ==
    /\ Returned("get_diseases_by_category")
    /\ ret.value = <<"Gripp">>
    /\ call.args[1] = "Respiratornoe"
    /\ <<"Gripp", "Respiratornoe">> \notin HierEdges
    /\ get_node("ORVI")["type"] = "category"
    /\ "Respiratornoe" \in ReachFrom({"ORVI"})

(***************************************************************************)
(* One engine answering any sequence of queries on a store that does not   *)
(* change.  Each query runs from its first statement to its return in one  *)
(* step, the engine being single-threaded; queue and visited are locals of *)
(* is_subtype_of and are not kept after it returns.                        *)
(***************************************************************************)
\* relations of a store the engine is queried on
MaxQueryRels == 2

QueryNames == {"Gripp", "ORVI", "Kashel"}
\* two diseases, a disease and a category, or no disease at all
QueryTables ==
    {<<[name |-> "Gripp", attrs |-> [type |-> t[1]]],
       [name |-> "ORVI", attrs |-> [type |-> t[2]]],
       [name |-> "Kashel", attrs |-> [type |-> "symptom"]]>> :
        t \in {<<"disease", "disease">>, <<"disease", "category">>,
               <<"category", "category">>}}
QueryTriples ==
    {<<"Gripp", HAS_SYMPTOM, "Kashel">>, <<"Gripp", HAS_SYMPTOM, "ORVI">>,
     <<"ORVI", HAS_SYMPTOM, "Kashel">>, <<"Gripp", TREATED_BY, "Kashel">>,
     <<"Gripp", TREATED_BY, "ORVI">>, <<"ORVI", TREATED_BY, "Kashel">>,
     <<"Gripp", IS_SUBTYPE, "ORVI">>}
QueryArgs == QueryNames \cup {UnknownName}
\* observed-symptom lists: empty, known, unknown
QueryObserved == {<<>>, <<"Kashel">>, <<UnknownName>>}

InitQueries ==
    /\ nodes \in QueryTables
    /\ relations \in SeqsUpTo(QueryTriples, MaxQueryRels)
    /\ EngineIdle
    /\ Single

\* a query has run: the caller holds its value, the engine its trace
Answer(op, args, out) ==
    /\ call' = [op |-> op, args |-> args]
    /\ ret' = [raised |-> FALSE, value |-> out.value]
    /\ inference_trace' = out.trace
    /\ pc' = "done"
    /\ UNCHANGED <<others, store, queue, visited>>

QueryIsSubtypeOf ==
    \E concept1 \in QueryArgs, concept2 \in QueryArgs :
        Answer("is_subtype_of", <<concept1, concept2>>,
               is_subtype_of(concept1, concept2))

QueryGetSymptoms ==
    \E disease \in QueryArgs :
        Answer("get_symptoms", <<disease>>, get_symptoms(disease))

QueryDiagnose ==
    \E symptoms \in QueryObserved :
        Answer("diagnose_by_symptoms", <<symptoms>>,
               diagnose_by_symptoms(symptoms))

QueryGetTreatment ==
    \E disease \in QueryArgs :
        Answer("get_treatment", <<disease>>, get_treatment(disease))

QueryGetDiseasesByCategory ==
    \E category \in QueryArgs :
        Answer("get_diseases_by_category", <<category>>,
               get_diseases_by_category(category))

QueryGetAllRelatedInfo ==
    \E concept \in QueryArgs :
        Answer("get_all_related_info", <<concept>>,
               get_all_related_info(concept))

QueryFindConnection ==
    \E concept1 \in QueryArgs, concept2 \in QueryArgs :
        Answer("find_connection", <<concept1, concept2>>,
               find_connection(concept1, concept2))

NextQueries ==
    \/ QueryIsSubtypeOf
    \/ QueryGetSymptoms
    \/ QueryDiagnose
    \/ QueryGetTreatment
    \/ QueryGetDiseasesByCategory
    \/ QueryGetAllRelatedInfo
    \/ QueryFindConnection

SpecQueries == InitQueries /\ [][NextQueries]_vars

\* the entry a query appends right after clear_trace()
OpeningEntry(op, args) ==
    CASE op = "is_subtype_of" ->
             [step |-> "Nachalo proverki", details |-> args]
      [] op = "get_symptoms" ->
             [step |-> "Nachalo zaprosa",
              details |-> <<"Poisk simptomov", args[1]>>]
      [] op = "diagnose_by_symptoms" ->
             [step |-> "Nachalo diagnostiki", details |-> args[1]]
      [] op = "get_treatment" ->
             [step |-> "Nachalo zaprosa",
              details |-> <<"Poisk lecheniya", args[1]>>]
      [] op = "get_diseases_by_category" ->
             [step |-> "Nachalo zaprosa",
              details |-> <<"Poisk zabolevanij kategorii", args[1]>>]
      [] op = "get_all_related_info" ->
             [step |-> "Nachalo zaprosa",
              details |-> <<"Sbor informacii", args[1]>>]
      [] op = "find_connection" ->
             [step |-> "Nachalo poiska", details |-> args]

\* C17: when a query returns, the first entry of the trace is that query's
\* own opening entry, whatever ran before and whatever queries it called.
C17_TraceOpensWithOwnEntry ==
    pc = "done" =>
        /\ inference_trace # <<>>
        /\ inference_trace[1] = OpeningEntry(call.op, call.args)

\* the queries that test their arguments against the node table, and the
\* arguments they test
ChecksNodes(op) ==
    op \in {"is_subtype_of", "get_symptoms", "get_treatment",
            "get_diseases_by_category", "get_all_related_info"}

\* the call took a branch that returns early with an error entry
FailurePath ==
    ChecksNodes(call.op) /\ \E i \in DOMAIN call.args : ~HasNode(call.args[i])

C19_AbsentNodeGivesErrorEntry ==
    (/\ pc = "done"
     /\ ChecksNodes(call.op) \/ call.op = "find_connection"
     /\ \E i \in DOMAIN call.args : ~HasNode(call.args[i]))
        => /\ ~ret.raised
           /\ IF call.op = "is_subtype_of" THEN ret.value = FALSE
                                           ELSE ret.value = <<>>
           /\ \E i \in DOMAIN inference_trace :
                  inference_trace[i].step = "Oshibka"

\* the targets of the relations of the given label leaving the node, by
\* increasing index in the relation list
OneHopTargets(node_name, label) ==
    LET S == {i \in DOMAIN relations : /\ relations[i][1] = node_name
                                       /\ relations[i][2] = label}
        hop == SubseqAt(S)
    IN  [k \in DOMAIN hop |-> hop[k][3]]

\* C20: get_symptoms(d), d a node, returns the targets of exactly the
\* has-symptom relations leaving d, in insertion order with duplicates
\* kept, no node two relations away or behind another label;
\* get_treatment(d) does the same for the treated-by label; both return the
\* empty list when d is not a node.
C20_OneHopLookups ==
    /\ Returned("get_symptoms") =>
           ret.value = IF HasNode(call.args[1])
                       THEN OneHopTargets(call.args[1], HAS_SYMPTOM)
                       ELSE <<>>
    /\ Returned("get_treatment") =>
           ret.value = IF HasNode(call.args[1])
                       THEN OneHopTargets(call.args[1], TREATED_BY)
                       ELSE <<>>

\* get_treatment returned one treatment, which is itself treated by a
\* further node that was not returned
C20_Witness ==
    /\ Returned("get_treatment")
    /\ Len(ret.value) = 1
    /\ \E i \in DOMAIN relations :
           /\ relations[i][1] = ret.value[1]
           /\ relations[i][2] = TREATED_BY
           /\ relations[i][3] \notin Range(ret.value)

\* the labels of the relations that have the concept at the given place
LabelsAt(concept, own_end) ==
    {relations[i][2] :
        i \in {j \in DOMAIN relations : relations[j][own_end] = concept}}

\* the far ends of the relations of the label that have the concept at the
\* given place, by increasing index in the relation list
LabelEnds(concept, own_end, other_end, label) ==
    LET S == {i \in DOMAIN relations : /\ relations[i][own_end] = concept
                                       /\ relations[i][2] = label}
        hop == SubseqAt(S)
    IN  [k \in DOMAIN hop |-> hop[k][other_end]]

\* C21: get_all_related_info(c), c a node, returns the attribute mapping of
\* c, an outgoing mapping whose keys are exactly the labels of the relations
\* with source c, each mapped to the targets of those relations once per
\* relation in insertion order, and an incoming mapping built the same way
\* from the relations with target c and their sources; no key maps to an
\* empty list.
C21_RelatedInfoGroupsByLabel ==
    (Returned("get_all_related_info") /\ HasNode(call.args[1])) =>
        LET c == call.args[1]
            out == ret.value.ishodyashchie_svyazi
            inc == ret.value.vhodyashchie_svyazi
        IN  /\ ret.value.uzel = c
            /\ ret.value.atributy = get_node(c)
            /\ DOMAIN out = LabelsAt(c, 1)
            /\ \A label \in DOMAIN out :
                   /\ out[label] = LabelEnds(c, 1, 3, label)
                   /\ out[label] # <<>>
            /\ DOMAIN inc = LabelsAt(c, 3)
            /\ \A label \in DOMAIN inc :
                   /\ inc[label] = LabelEnds(c, 3, 1, label)
                   /\ inc[label] # <<>>

\* the store holds the same relation twice and the query was made for its
\* source: the target is listed twice under the label, and nothing arrives
\* at the concept, so the incoming mapping has no key
C21_Witness ==
    /\ Returned("get_all_related_info")
    /\ HasNode(call.args[1])
    /\ Len(relations) = 2
    /\ relations[1] = relations[2]
    /\ relations[1][1] = call.args[1]
    /\ ret.value.ishodyashchie_svyazi[relations[1][2]]
           = <<relations[1][3], relations[1][3]>>
    /\ DOMAIN ret.value.vhodyashchie_svyazi = {}

(***************************************************************************)
(* Two stores.  The first is built with add_node and add_relation, the     *)
(* second is loaded from the first's export and from then on both are      *)
(* written to.  A Python attribute holds a reference: the dictionary       *)
(* export_to_dict returns holds the first store's dict and list            *)
(* themselves, named here by which object they are.                        *)
(***************************************************************************)
MaxPairRels == 2
PairNames == {"Gripp", "ORVI"}
PairTypes == {"disease", "category"}
PairTriples ==
    {<<"Gripp", IS_SUBTYPE, "ORVI">>, <<"ORVI", IS_SUBTYPE, "Gripp">>}

\* {"nodes": self.nodes, "relations": self.relations}, called on the first
\* store: no copy is made
export_to_dict == [nodes |-> "nodes of a", relations |-> "relations of a"]

\* the object a reference of the exported dictionary leads to
Deref(object) ==
    IF object = "nodes of a" THEN nodes
    ELSE IF object = "relations of a" THEN relations
    ELSE <<>>

\* tuple(r)
tuple(r) == [i \in 1..Len(r) |-> r[i]]

\* a slip: the relations are collected in a set and listed from it
import_relations_set(data) ==
    LET items == Deref(data.relations)
        firsts == {i \in DOMAIN items :
                      \A j \in DOMAIN items : items[j] = items[i] => i <= j}
        kept == SubseqAt(firsts)
    IN  [i \in DOMAIN kept |-> tuple(kept[i])]

\* [tuple(r) for r in data.get("relations", [])]: a new list
import_relations(data) ==
    LET items == IF "relations" \in DOMAIN data THEN Deref(data.relations)
                 ELSE <<>>
    IN  [i \in DOMAIN items |-> tuple(items[i])]

\* self.nodes = data.get("nodes", {}): the attribute is bound to the object
\* found in data;  self.relations = [...]
import_from_dict(data) ==
    [shares_nodes |-> "nodes" \in DOMAIN data /\ data.nodes = "nodes of a",
     relations |-> import_relations(data)]

\* the node table of the second store: its own dict stays empty, nothing is
\* added to the second store before it is loaded
nodes_b == IF store_b.shares_nodes THEN nodes ELSE <<>>

\* the second store was loaded from the first one's export
LoadedB == store_b.shares_nodes

\* b.import_from_dict(a.export_to_dict())
ImportB ==
    /\ store_b' = import_from_dict(export_to_dict)
    /\ call' = [op |-> "b.import_from_dict", args |-> <<>>]
    /\ ret' = NoReturn
    /\ UNCHANGED <<store, inference_trace, pc, queue, visited, threads,
                 trace_b>>

\* add_node on the first store
AddNodeA ==
    \E name \in PairNames, type \in PairTypes :
        /\ nodes' = add_node(name, type, <<>>)
        /\ call' = [op |-> "a.add_node", args |-> <<name, type>>]
        /\ ret' = NoReturn
        /\ UNCHANGED <<others, relations, inference_trace, pc, queue, visited>>

\* add_node on the loaded second store: self.nodes[node_name] = {...} is an
\* item assignment on the dict self.nodes is bound to
AddNodeB ==
    \E name \in PairNames, type \in PairTypes :
        /\ LoadedB
        /\ nodes' = add_node(name, type, <<>>)
        /\ call' = [op |-> "b.add_node", args |-> <<name, type>>]
        /\ ret' = NoReturn
        /\ UNCHANGED <<others, relations, inference_trace, pc, queue, visited>>

\* add_relation on the first store
AddRelationA ==
    \E t \in PairTriples :
        LET error == add_relation_raises(t[1], t[3])
        IN  /\ call' = [op |-> "a.add_relation", args |-> t]
            /\ IF error # <<>>
               THEN /\ ret' = [raised |-> TRUE, value |-> error]
                    /\ UNCHANGED relations
               ELSE /\ Len(relations) < MaxPairRels
                    /\ relations' = add_relation(t[1], t[2], t[3])
                    /\ ret' = NoReturn
            /\ UNCHANGED <<others, nodes, inference_trace, pc, queue, visited>>

\* add_relation on the loaded second store: the membership tests read the
\* dict self.nodes is bound to, the triple goes to the second store's list
AddRelationB ==
    \E t \in PairTriples :
        LET error == add_relation_raises(t[1], t[3])
        IN  /\ LoadedB
            /\ call' = [op |-> "b.add_relation", args |-> t]
            /\ IF error # <<>>
               THEN /\ ret' = [raised |-> TRUE, value |-> error]
                    /\ UNCHANGED store_b
               ELSE /\ Len(store_b.relations) < MaxPairRels
                    /\ store_b' = [store_b EXCEPT
                                      !.relations = Append(@, tuple(t))]
                    /\ ret' = NoReturn
            /\ UNCHANGED <<store, threads, trace_b, inference_trace, pc, queue,
                         visited>>

NextStores == ImportB \/ AddNodeA \/ AddNodeB \/ AddRelationA \/ AddRelationB

SpecStores == Init /\ [][NextStores]_vars

\* C22: right after b.import_from_dict(a.export_to_dict()) the second store
\* has the node names of the first in the same order, each with the same
\* attribute mapping, and a relation list equal to the first's element for
\* element, order and duplicates kept.
C22_ImportOfExportIsEqual ==
    call.op = "b.import_from_dict" =>
        /\ NamesOf(nodes_b) = NamesOf(nodes)
        /\ \A i \in DOMAIN nodes : nodes_b[i].attrs = nodes[i].attrs
        /\ Len(store_b.relations) = Len(relations)
        /\ \A i \in DOMAIN relations : store_b.relations[i] = relations[i]

\* a store of two nodes that holds one relation twice was exported and
\* loaded
C22_Witness ==
    /\ call.op = "b.import_from_dict"
    /\ Len(nodes) = 2
    /\ Len(relations) = 2
    /\ relations[1] = relations[2]
    /\ Len(store_b.relations) = 2

\* C30: once the second store was loaded from the first one's export, an
\* add_node or add_relation on the second leaves the node table and the
\* relation list of the first as they were, and one on the first leaves
\* those of the second as they were.
C30_StoresIndependentAfterLoad ==
    [][LoadedB =>
          /\ call'.op \in {"b.add_node", "b.add_relation"} =>
                 (nodes' = nodes /\ relations' = relations)
          /\ call'.op \in {"a.add_node", "a.add_relation"} =>
                 (nodes_b' = nodes_b /\ store_b'.relations = store_b.relations)
      ]_vars

(***************************************************************************)
(* ExplanationComponent (src/explanation.py).  A text is the list of its   *)
(* lines and a line is the list of the pieces it is formatted from; the    *)
(* rulers and blank lines are left out.  Every method is an operator that  *)
(* gives the text and the engine's trace once it has returned.             *)
(***************************************************************************)
MaxReadRels == 2
ReadTriples ==
    {<<"Gripp", HAS_SYMPTOM, "Kashel">>, <<"ORVI", HAS_SYMPTOM, "Kashel">>,
     <<"Gripp", TREATED_BY, "Kashel">>, <<"Gripp", IS_SUBTYPE, "ORVI">>}

\* self.engine.get_trace(): the list itself
get_trace == inference_trace

\* for i, step in enumerate(trace, 1): the step line and the details line
RECURSIVE StepLines(_, _)
StepLines(trace, i) ==
    IF i > Len(trace) THEN <<>>
    ELSE <<<<"Shag", ToString(i), trace[i].step>>, trace[i].details>>
             \o StepLines(trace, i + 1)

explain_last_inference ==
    LET trace == get_trace
    IN  [text |-> IF trace = <<>>
                  THEN <<<<"Net dannyh o poslednem vyvode.">>>>
                  ELSE <<<<"OBYASNENIE LOGICHESKOGO VYVODA">>>>
                           \o StepLines(trace, 1),
         trace |-> get_trace]

\* f"{confidence:.1%}": tenths of a percent, rounded to nearest
FormatTenths(c) == ToString((2000 * c.num + c.den) \div (2 * c.den))

\* the for loop over diagnosis_results: [text, trace]; the two calls on
\* self.engine are queries, each clears the trace and writes its own
RECURSIVE explain_results(_, _)
explain_results(results, acc) ==
    IF results = <<>> THEN acc
    ELSE LET r == Head(results)
             all_symptoms == get_symptoms(r.disease)
             missing_symptoms ==
                 SelectSeq(all_symptoms.value,
                           LAMBDA s : s \notin Range(r.matched))
             treatments == get_treatment(r.disease)
             lines ==
                 <<<<r.disease>>,
                   <<"Uverennost", FormatTenths(r.confidence)>>,
                   <<"Sovpavshie simptomy">> \o r.matched>>
                 \o (IF missing_symptoms # <<>>
                     THEN <<<<"Otsutstvuyushchie simptomy">>
                                \o missing_symptoms>>
                     ELSE <<>>)
                 \o (IF treatments.value # <<>>
                     THEN <<<<"Rekomenduemoe lechenie">> \o treatments.value>>
                     ELSE <<>>)
         IN  explain_results(Tail(results),
                 [text |-> acc.text \o lines, trace |-> treatments.trace])

\* best_match[1] >= 0.8, >= 0.5, else
recommendation(best_match) ==
    IF 5 * best_match.confidence.num >= 4 * best_match.confidence.den
    THEN <<"Vysokaya veroyatnost", best_match.disease>>
    ELSE IF 2 * best_match.confidence.num >= best_match.confidence.den
    THEN <<"Srednyaya veroyatnost", best_match.disease>>
    ELSE <<"Nizkaya uverennost v diagnoze">>

explain_diagnosis(symptoms, diagnosis_results) ==
    LET head == <<<<"OBYASNENIE DIAGNOSTIKI">>,
                  <<"Nablyudaemye simptomy", ToString(Len(symptoms))>>
                      \o symptoms>>
        found == <<"Najdeno vozmozhnyh zabolevanij",
                   ToString(Len(diagnosis_results))>>
        each == explain_results(diagnosis_results,
                    [text |-> head \o <<found>>, trace |-> get_trace])
    IN  IF diagnosis_results = <<>>
        THEN [text |-> head \o <<<<"Ne najdeno zabolevanij">>>>,
              trace |-> get_trace]
        ELSE [text |-> each.text
                           \o <<recommendation(diagnosis_results[1])>>,
              trace |-> each.trace]

\* for step in trace: if step['step'] == "Najdena svyaz"
RECURSIVE LinkLines(_)
LinkLines(trace) ==
    IF trace = <<>> THEN <<>>
    ELSE (IF Head(trace).step = "Najdena svyaz"
          THEN <<Head(trace).details>> ELSE <<>>)
             \o LinkLines(Tail(trace))

explain_subtype_check(concept1, concept2, result) ==
    LET head == <<<<"OBYASNENIE PROVERKI PODTIPA">>,
                  <<"Vopros", concept1, concept2>>,
                  <<"Otvet", IF result THEN "DA" ELSE "NET">>>>
        trace == get_trace
    IN  [text |-> IF result
                  THEN head \o <<<<"Najdena cepochka", concept1, concept2>>>>
                            \o LinkLines(trace)
                  ELSE head \o <<<<"Ne najdeno cepochki",
                                   concept1, concept2>>>>,
         trace |-> get_trace]

\* the keys of a node's attribute dict in the order add_node writes them
AttrKeys == <<"type", "severity">>

\* for key, value in info["atributy"].items()
AttrLines(attrs) ==
    LET keys == SelectSeq(AttrKeys, LAMBDA k : k \in DOMAIN attrs)
    IN  [i \in DOMAIN keys |-> <<keys[i], attrs[keys[i]]>>]

\* the keys of a grouping in the order they were created: by the first
\* relation of each label
RECURSIVE LabelsInOrder(_, _)
LabelsInOrder(rels, seen) ==
    IF rels = <<>> THEN <<>>
    ELSE IF Head(rels)[2] \in seen THEN LabelsInOrder(Tail(rels), seen)
    ELSE <<Head(rels)[2]>>
             \o LabelsInOrder(Tail(rels), seen \cup {Head(rels)[2]})

\* for rel_type, targets in info[...].items(): the label, then its names
GroupLines(grouping, rels) ==
    LET keys == LabelsInOrder(rels, {})
    IN  [i \in DOMAIN keys |-> <<keys[i]>> \o grouping[keys[i]]]

\* the engine is not called
explain_concept_info(concept, info) ==
    LET head == <<<<"INFORMACIYA O KONCEPTE", concept>>>>
        attrs == IF "atributy" \in DOMAIN info /\ info.atributy # <<>>
                 THEN <<<<"Atributy">>>> \o AttrLines(info.atributy)
                 ELSE <<>>
        outgoing ==
            IF /\ "ishodyashchie_svyazi" \in DOMAIN info
               /\ info.ishodyashchie_svyazi # <<>>
            THEN <<<<"Ishodyashchie svyazi">>>>
                     \o GroupLines(info.ishodyashchie_svyazi,
                                   get_relations_from(info.uzel))
            ELSE <<>>
        incoming ==
            IF /\ "vhodyashchie_svyazi" \in DOMAIN info
               /\ info.vhodyashchie_svyazi # <<>>
            THEN <<<<"Vhodyashchie svyazi">>>>
                     \o GroupLines(info.vhodyashchie_svyazi,
                                   get_relations_to(info.uzel))
            ELSE <<>>
    IN  [text |-> IF info = <<>>
                  THEN head \o <<<<"Koncept ne najden v baze znanij.">>>>
                  ELSE head \o attrs \o outgoing \o incoming,
         trace |-> inference_trace]

\* sorted(...) of strings: the strings of this module in code-point order
\* (the labels in the order of their Cyrillic originals)
SortedStrings ==
    <<"Gripp", "Kashel", "ORVI", "category", "disease", "symptom", "unknown",
      HAS_SYMPTOM, TREATED_BY, IS_SUBTYPE>>

\* for key, count in sorted(counts.items()), counts[k] the number of
\* members of `items` equal to k
CountLines(items) ==
    LET keys == SelectSeq(SortedStrings, LAMBDA k : k \in Range(items))
        count(k) == Cardinality({i \in DOMAIN items : items[i] = k})
    IN  [i \in DOMAIN keys |-> <<keys[i], ToString(count(keys[i]))>>]

\* for name in sorted(names), after the heading with len(names); nothing
\* when the list is empty
NameLines(heading, names) ==
    LET sorted == SelectSeq(SortedStrings, LAMBDA k : k \in Range(names))
    IN  IF names = <<>> THEN <<>>
        ELSE <<<<heading, ToString(Len(names))>>>>
                 \o [i \in DOMAIN sorted |-> <<sorted[i]>>]

\* generate_summary(kb), kb the engine's store: reads kb only
generate_summary ==
    LET node_types ==
            [i \in DOMAIN nodes |->
                IF "type" \in DOMAIN nodes[i].attrs
                THEN nodes[i].attrs["type"] ELSE "unknown"]
        relation_types == [i \in DOMAIN relations |-> relations[i][2]]
    IN  [text |-> <<<<"SVODKA PO BAZE ZNANIJ">>,
                    <<"Vsego uzlov", ToString(Len(nodes))>>>>
                  \o CountLines(node_types)
                  \o <<<<"Vsego svyazej", ToString(Len(relations))>>>>
                  \o CountLines(relation_types)
                  \o NameLines("Zabolevaniya v baze",
                               get_all_nodes_by_type("disease"))
                  \o NameLines("Simptomy v baze",
                               get_all_nodes_by_type("symptom")),
         trace |-> inference_trace]

\* for i, step in enumerate(trace, 1): the steps other than the opening of
\* a lookup and the result
RECURSIVE WhyLines(_, _)
WhyLines(trace, i) ==
    IF i > Len(trace) THEN <<>>
    ELSE (IF trace[i].step \notin {"Nachalo zaprosa", "Rezultat"}
          THEN <<<<ToString(i), trace[i].step>> \o trace[i].details>>
          ELSE <<>>)
             \o WhyLines(trace, i + 1)

\* the answer line shows str(answer), which is not spelled out here
explain_why_question(question, answer) ==
    LET head == <<<<"OBYASNENIE">>, <<"Vopros", question>>, <<"Otvet">>>>
        trace == get_trace
    IN  [text |-> IF trace # <<>>
                  THEN head \o <<<<"Osnovano na shagah">>>> \o WhyLines(trace, 1)
                  ELSE head \o <<<<"Otvet poluchen napryamuyu">>>>,
         trace |-> get_trace]

QueryOps ==
    {"is_subtype_of", "get_symptoms", "diagnose_by_symptoms", "get_treatment",
     "get_diseases_by_category", "get_all_related_info", "find_connection"}

ExplainOps ==
    {"explain_last_inference", "explain_diagnosis", "explain_subtype_check",
     "explain_concept_info", "generate_summary", "explain_why_question"}

InitReads ==
    /\ nodes \in QueryTables
    /\ relations \in SeqsUpTo(ReadTriples, MaxReadRels)
    /\ EngineIdle
    /\ Single

\* a method of the renderer returns: the text goes to the caller, the
\* engine's trace is what the method left
Explain(op, args, out) ==
    /\ call' = [op |-> op, args |-> args]
    /\ ret' = [raised |-> FALSE, value |-> out.text]
    /\ inference_trace' = out.trace
    /\ pc' = "done"
    /\ UNCHANGED <<others, store, queue, visited>>

ExplainLastInference ==
    Explain("explain_last_inference", <<>>, explain_last_inference)

\* explain_diagnosis(symptoms, results) with the list just diagnosed and
\* the results just returned
ExplainDiagnosis ==
    /\ Returned("diagnose_by_symptoms")
    /\ Explain("explain_diagnosis", <<call.args[1], ret.value>>,
               explain_diagnosis(call.args[1], ret.value))

ExplainSubtypeCheck ==
    /\ Returned("is_subtype_of")
    /\ Explain("explain_subtype_check",
               <<call.args[1], call.args[2], ret.value>>,
               explain_subtype_check(call.args[1], call.args[2], ret.value))

ExplainConceptInfo ==
    /\ Returned("get_all_related_info")
    /\ Explain("explain_concept_info", <<call.args[1], ret.value>>,
               explain_concept_info(call.args[1], ret.value))

GenerateSummary == Explain("generate_summary", <<>>, generate_summary)

\* the question is the query just made, the answer the value it returned
ExplainWhyQuestion ==
    /\ pc = "done"
    /\ call.op \in QueryOps
    /\ Explain("explain_why_question", <<call.op, ret.value>>,
               explain_why_question(call.op, ret.value))

NextExplain ==
    \/ NextQueries
    \/ ExplainLastInference
    \/ ExplainDiagnosis
    \/ ExplainSubtypeCheck
    \/ ExplainConceptInfo
    \/ GenerateSummary
    \/ ExplainWhyQuestion

SpecExplain == InitReads /\ [][NextExplain]_vars

\* C29: no method of the renderer changes the engine's trace or the store:
\* when one of explain_last_inference, explain_diagnosis,
\* explain_subtype_check, explain_concept_info, generate_summary and
\* explain_why_question has returned, get_trace() and the store are what
\* they were when it was called.
C29_RendererOnlyReads ==
    [][call'.op \in ExplainOps =>
          /\ inference_trace' = inference_trace
          /\ nodes' = nodes
          /\ relations' = relations]_vars

(***************************************************************************)
(* Every read of a built store: the seven queries of the engine and the    *)
(* lookups of the store, in any order, with names the store does not hold. *)
(***************************************************************************)
MaxLookupRels == 1
\* a node of every table, and a name that is no node
LookupArgs == {"Gripp", UnknownName}

InitLookups ==
    /\ nodes \in QueryTables
    /\ relations \in SeqsUpTo(ReadTriples, MaxLookupRels)
    /\ EngineIdle
    /\ Single

ReadOps ==
    QueryOps \cup {"get_node", "get_relations_from", "get_relations_to",
                   "get_relations_by_type", "get_all_nodes_by_type",
                   "find_path"}

\* a lookup of the store returns; the engine is not involved
Lookup(op, args, value) ==
    /\ call' = [op |-> op, args |-> args]
    /\ ret' = [raised |-> FALSE, value |-> value]
    /\ pc' = "done"
    /\ UNCHANGED <<others, relations, inference_trace, queue, visited>>

ReadGetNode ==
    \E node_name \in LookupArgs :
        /\ Lookup("get_node", <<node_name>>, get_node(node_name))
        /\ nodes' = nodes_after_get(node_name)

ReadRelationsFrom ==
    \E node_name \in LookupArgs :
        /\ Lookup("get_relations_from", <<node_name>>,
                  get_relations_from(node_name))
        /\ UNCHANGED nodes

ReadRelationsTo ==
    \E node_name \in LookupArgs :
        /\ Lookup("get_relations_to", <<node_name>>,
                  get_relations_to(node_name))
        /\ UNCHANGED nodes

ReadRelationsByType ==
    \E relation_type \in {HAS_SYMPTOM, UnknownName} :
        /\ Lookup("get_relations_by_type", <<relation_type>>,
                  get_relations_by_type(relation_type))
        /\ UNCHANGED nodes

ReadAllNodesByType ==
    \E node_type \in {"disease", UnknownName} :
        /\ Lookup("get_all_nodes_by_type", <<node_type>>,
                  get_all_nodes_by_type(node_type))
        /\ UNCHANGED nodes

ReadFindPath ==
    \E start \in LookupArgs, end \in {"Kashel", UnknownName} :
        /\ Lookup("find_path", <<start, end>>,
                  find_path(start, end, DefaultMaxDepth))
        /\ UNCHANGED nodes

NextReads ==
    \/ NextQueries
    \/ ReadGetNode
    \/ ReadRelationsFrom
    \/ ReadRelationsTo
    \/ ReadRelationsByType
    \/ ReadAllNodesByType
    \/ ReadFindPath

SpecReads == InitLookups /\ [][NextReads]_vars

\* C23: no query of the engine and no lookup of the store (get_node,
\* get_relations_from, get_relations_to, get_relations_by_type,
\* get_all_nodes_by_type, find_path) changes the store, whatever was called
\* before and also for a name the store does not hold: the node table and
\* the relation list after the call are those before it.
C23_ReadsLeaveStore ==
    [][call'.op \in ReadOps => (nodes' = nodes /\ relations' = relations)]_vars

\* get_node was called with a name that is no node of a store holding
\* nodes and relations: it returned the empty mapping and the name is
\* still no node
C23_Witness ==
    /\ call.op = "get_node"
    /\ call.args[1] = UnknownName
    /\ ret.value = <<>>
    /\ nodes # <<>>
    /\ relations # <<>>
    /\ ~HasNode(UnknownName)

\* what the query `c` returns and leaves as trace on the store as it is now,
\* computed from the store and the arguments of c alone
Alone(c) ==
    LET out ==
            CASE c.op = "is_subtype_of" -> is_subtype_of(c.args[1], c.args[2])
              [] c.op = "get_symptoms" -> get_symptoms(c.args[1])
              [] c.op = "diagnose_by_symptoms" ->
                     diagnose_by_symptoms(c.args[1])
              [] c.op = "get_treatment" -> get_treatment(c.args[1])
              [] c.op = "get_diseases_by_category" ->
                     get_diseases_by_category(c.args[1])
              [] c.op = "get_all_related_info" ->
                     get_all_related_info(c.args[1])
              [] c.op = "find_connection" ->
                     find_connection(c.args[1], c.args[2])
    IN  [value |-> out.value, trace |-> out.trace]

EntriesWith(step) ==
    {i \in DOMAIN inference_trace : inference_trace[i].step = step}

\* C27: after get_diseases_by_category(c) on a store where c is a node and
\* at least one node has type "disease", the trace is the whole trace of
\* is_subtype_of(d, c) for the last disease d of the node table, then an
\* entry "found disease" naming d exactly when that check returned true,
\* then the result entry with the number of diseases returned; no entry
\* written for an earlier disease is left (one opening entry of a subtype
\* check, naming d and c, and no opening entry of the category query).
C27_TraceIsLastDiseaseOnly ==
    LET c == call.args[1]
        all_diseases == get_all_nodes_by_type("disease")
        d == all_diseases[Len(all_diseases)]
        sub == is_subtype_of(d, c)
        found == IF sub.value
                 THEN <<[step |-> "Najdeno zabolevanie", details |-> <<d>>]>>
                 ELSE <<>>
        result == [step |-> "Rezultat",
                   details |-> <<"Najdeno zabolevanij",
                                 ToString(Len(ret.value))>>]
    IN  (/\ Returned("get_diseases_by_category")
         /\ HasNode(c)
         /\ all_diseases # <<>>) =>
            /\ inference_trace = sub.trace \o found \o <<result>>
            /\ EntriesWith("Nachalo proverki") = {1}
            /\ inference_trace[1].details = <<d, c>>
            /\ EntriesWith("Nachalo zaprosa") = {}
            /\ \A i \in EntriesWith("Najdeno zabolevanie") :
                   inference_trace[i].details = <<d>>

\* two diseases were tested; the first is in the category and was
\* returned, the last is not: the trace has no "found disease" entry and
\* its checks are those of the last disease
C27_Witness ==
    /\ Returned("get_diseases_by_category")
    /\ Len(get_all_nodes_by_type("disease")) = 2
    /\ ret.value = <<get_all_nodes_by_type("disease")[1]>>
    /\ EntriesWith("Najdeno zabolevanie") = {}
    /\ Len(inference_trace) > 3

\* the nodes named by the "node check" entries of the trace, in trace order
CheckedNodes ==
    LET checks == SelectSeq(inference_trace,
                            LAMBDA e : e.step = "Proverka uzla")
    IN  [i \in DOMAIN checks |-> checks[i].details[1]]

\* the order in which a breadth-first search over the is-subtype-of
\* relations takes the nodes from its queue, each node once
RECURSIVE DequeueOrder(_, _)
DequeueOrder(pending, seen) ==
    IF pending = <<>> THEN <<>>
    ELSE IF Head(pending) \in seen THEN DequeueOrder(Tail(pending), seen)
    ELSE <<Head(pending)>>
             \o DequeueOrder(Tail(pending)
                                 \o OneHopTargets(Head(pending), IS_SUBTYPE),
                             seen \cup {Head(pending)})

IsPrefix(s, t) ==
    /\ Len(s) <= Len(t)
    /\ \A i \in DOMAIN s : s[i] = t[i]

\* C28: during and after is_subtype_of(a, b) on two nodes: the "node check"
\* entries of the trace name pairwise distinct nodes, they are the first
\* nodes of the breadth-first dequeue order from a (so the first names a);
\* every "relation found" entry names an is-subtype-of relation of the
\* store whose source is the node of the nearest "node check" entry before
\* it; and when the call has returned true, the last "node check" entry
\* names b and is the entry right before the result entry, which is last.
C28_TraceFollowsTraversal ==
    (/\ call.op = "is_subtype_of"
     /\ HasNode(call.args[1])
     /\ HasNode(call.args[2])) =>
        LET a == call.args[1]
            b == call.args[2]
            checks == EntriesWith("Proverka uzla")
            n == Len(inference_trace)
        IN  /\ \A i, j \in checks :
                   inference_trace[i].details = inference_trace[j].details
                       => i = j
            /\ IsPrefix(CheckedNodes, DequeueOrder(<<a>>, {}))
            /\ \A i \in EntriesWith("Najdena svyaz") :
                   /\ inference_trace[i].details \in Range(relations)
                   /\ inference_trace[i].details[2] = IS_SUBTYPE
                   /\ \E k \in checks :
                          /\ k < i
                          /\ \A m \in checks : m < i => m <= k
                          /\ inference_trace[k].details
                                 = <<inference_trace[i].details[1]>>
            /\ (pc = "done" /\ ret.value = TRUE) =>
                   /\ inference_trace[n].step = "Rezultat"
                   /\ inference_trace[n - 1].step = "Proverka uzla"
                   /\ inference_trace[n - 1].details = <<b>>
                   /\ \A k \in checks : k <= n - 1

\* a search that found b after checking three nodes and writing two
\* "relation found" entries has returned true
C28_Witness ==
    /\ Returned("is_subtype_of")
    /\ ret.value = TRUE
    /\ Len(CheckedNodes) = 3
    /\ Cardinality(EntriesWith("Najdena svyaz")) >= 2

(***************************************************************************)
(* Concurrent callers of is_subtype_of on one built store.  A caller runs  *)
(* the method one statement at a time: the trace clear, each trace append, *)
(* each read of the store and each update of the local queue and visited   *)
(* set is a step of its own, and the steps of the two callers interleave   *)
(* in every order.  Statements that only test locals are taken together    *)
(* with the step before them.                                              *)
(***************************************************************************)
MaxRaceRels == 2
MaxSharedRels == 1
RaceTriples ==
    {<<"Gripp", IS_SUBTYPE, "Infekcionnoe">>,
     <<"Infekcionnoe", IS_SUBTYPE, "Zabolevanie">>,
     <<"Infekcionnoe", IS_SUBTYPE, "Gripp">>,
     <<"Gripp", HAS_SYMPTOM, "Zabolevanie">>}
\* the calls made: up the hierarchy, down it, and with a name that is no node
RaceCalls ==
    {<<"Gripp", "Zabolevanie">>, <<"Infekcionnoe", "Gripp">>,
     <<UnknownName, "Gripp">>}

\* a slip: the engines keep their trace in one shared attribute
engine_shared(t) == 1

\* InferenceEngine(kb) per caller: each caller has an engine of its own
engine_of_caller(t) == t

\* self.inference_trace of engine e
TraceOf(e) == IF e = 1 THEN inference_trace ELSE trace_b

\* a slip: the label of the relation is not tested
follows_any(rel) == TRUE

\* if rel[1] == "yavlyaetsya_podtipom"
follows(rel) == rel[2] = IS_SUBTYPE

\* the next statement of is_subtype_of for the caller with frame f, whose
\* engine holds `trace`: the frame and the trace after it
is_subtype_of_step(f, trace) ==
    LET concept1 == f.args[1]
        concept2 == f.args[2]
        goto(p) == [frame |-> [f EXCEPT !.pc = p], trace |-> trace]
        return(v, t) ==
            [frame |-> [f EXCEPT !.pc = "done", !.value = v], trace |-> t]
    IN  CASE f.pc = "clear" ->
                 [frame |-> [f EXCEPT !.pc = "open"], trace |-> clear_trace]
          [] f.pc = "open" ->
                 [frame |-> [f EXCEPT !.pc = "check1"],
                  trace |-> add_trace(trace, "Nachalo proverki", f.args)]
          [] f.pc = "check1" ->
                 goto(IF HasNode(concept1) THEN "check2" ELSE "error1")
          [] f.pc = "error1" ->
                 return(FALSE, add_trace(trace, "Oshibka", <<concept1>>))
          [] f.pc = "check2" ->
                 IF HasNode(concept2)
                 THEN [frame |-> [f EXCEPT !.pc = "while", !.visited = {},
                                           !.queue = <<concept1>>],
                       trace |-> trace]
                 ELSE goto("error2")
          [] f.pc = "error2" ->
                 return(FALSE, add_trace(trace, "Oshibka", <<concept2>>))
          [] f.pc = "while" ->
                 IF f.queue = <<>> THEN goto("fail")
                 ELSE IF Head(f.queue) \in f.visited
                 THEN [frame |-> [f EXCEPT !.queue = Tail(@)],
                       trace |-> trace]
                 ELSE [frame |-> [f EXCEPT !.queue = Tail(@),
                                           !.current = Head(f.queue),
                                           !.visited = @ \cup {Head(f.queue)},
                                           !.pc = "note"],
                       trace |-> trace]
          [] f.pc = "note" ->
                 [frame |-> [f EXCEPT !.pc = IF f.current = concept2
                                             THEN "found" ELSE "lookup"],
                  trace |-> add_trace(trace, "Proverka uzla", <<f.current>>)]
          [] f.pc = "found" ->
                 return(TRUE, add_trace(trace, "Rezultat",
                                  <<concept1, "YAVLYAETSYA", concept2>>))
          [] f.pc = "lookup" ->
                 [frame |-> [f EXCEPT !.links = get_relations_from(f.current),
                                      !.pc = "for"],
                  trace |-> trace]
          [] f.pc = "for" ->
                 IF f.links = <<>> THEN goto("while")
                 ELSE IF follows(Head(f.links))
                 THEN [frame |-> [f EXCEPT !.queue = Append(@, Head(f.links)[3]),
                                           !.pc = "log"],
                       trace |-> trace]
                 ELSE [frame |-> [f EXCEPT !.links = Tail(@)],
                       trace |-> trace]
          [] f.pc = "log" ->
                 [frame |-> [f EXCEPT !.links = Tail(@), !.pc = "for"],
                  trace |-> add_trace(trace, "Najdena svyaz", Head(f.links))]
          [] f.pc = "fail" ->
                 return(FALSE, add_trace(trace, "Rezultat",
                                   <<concept1, "NE YAVLYAETSYA", concept2>>))

\* two engines on the store, one per caller
InitEngines ==
    /\ nodes = HierNodes
    /\ relations \in SeqsUpTo(RaceTriples, MaxRaceRels)
    /\ EngineIdle
    /\ trace_b = <<>>
    /\ store_b = StoreBEmpty
    /\ threads = [t \in Callers |-> IdleFrame(engine_of_caller(t))]

\* one engine on the store, called by both callers
InitRace ==
    /\ nodes = HierNodes
    /\ relations \in SeqsUpTo(RaceTriples, MaxSharedRels)
    /\ EngineIdle
    /\ trace_b = <<>>
    /\ store_b = StoreBEmpty
    /\ threads = [t \in Callers |-> IdleFrame(1)]

\* a caller calls is_subtype_of on its engine
ThreadCall ==
    \E t \in Callers, args \in RaceCalls :
        /\ threads[t].pc = "idle"
        /\ threads' = [threads EXCEPT ![t].pc = "clear", ![t].args = args]
        /\ UNCHANGED <<store, store_b, inference_trace, trace_b, pc, call,
                       queue, visited, ret>>

\* a caller inside is_subtype_of runs its next statement
ThreadStep ==
    \E t \in Callers :
        LET f == threads[t]
            out == is_subtype_of_step(f, TraceOf(f.engine))
        IN  /\ f.pc \notin {"idle", "done"}
            /\ threads' = [threads EXCEPT ![t] = out.frame]
            /\ IF f.engine = 1
               THEN inference_trace' = out.trace /\ UNCHANGED trace_b
               ELSE trace_b' = out.trace /\ UNCHANGED inference_trace
            /\ UNCHANGED <<store, store_b, pc, call, queue, visited, ret>>

NextThreads == ThreadCall \/ ThreadStep

SpecEngines == InitEngines /\ [][NextThreads]_vars

SpecRace == InitRace /\ [][NextThreads]_vars

\* the call of caller t run alone on a fresh engine: its value and trace
AloneRun(t) == is_subtype_of(threads[t].args[1], threads[t].args[2])

\* C24: two engines on one built store, each running is_subtype_of while
\* the statements of the two calls interleave in any order: when a call
\* has returned, its value and the trace in its own engine are those of the
\* same call run alone.
C24_EnginesDoNotInterfere ==
    \A t \in Callers :
        threads[t].pc = "done" =>
            /\ threads[t].value = AloneRun(t).value
            /\ TraceOf(threads[t].engine) = AloneRun(t).trace

\* both calls have returned, one true after a search over two links and
\* one false; the two engines hold different traces
C24_Witness ==
    /\ \A t \in Callers : threads[t].pc = "done"
    /\ threads[1].value = TRUE
    /\ threads[2].value = FALSE
    /\ Len(inference_trace) >= 7
    /\ Len(trace_b) >= 3
    /\ threads[1].engine # threads[2].engine

\* t is s1 and s2 shuffled: every entry of t comes from one of them and
\* the entries of each keep their order
RECURSIVE IsMerge(_, _, _)
IsMerge(t, s1, s2) ==
    IF t = <<>> THEN s1 = <<>> /\ s2 = <<>>
    ELSE \/ /\ s1 # <<>>
            /\ Head(t) = Head(s1)
            /\ IsMerge(Tail(t), Tail(s1), s2)
         \/ /\ s2 # <<>>
            /\ Head(t) = Head(s2)
            /\ IsMerge(Tail(t), s1, Tail(s2))

\* both callers have returned from their calls on the one engine
BothReturned == \A t \in Callers : threads[t].pc = "done"

\* C26: two is_subtype_of calls on the same engine whose clear and append
\* steps interleave: each call still returns the value it returns alone,
\* and once both have returned the trace is the whole alone-trace of one
\* call shuffled with the entries the other call appended after the last
\* clear (a tail of its alone-trace, possibly empty); nothing else can be
\* left, and in particular a trace equal to neither alone-trace is left
\* (see the witness).
C26_RaceLeavesShuffledTrace ==
    BothReturned =>
        /\ \A t \in Callers : threads[t].value = AloneRun(t).value
        /\ \E t \in Callers :
               LET whole == AloneRun(t).trace
                   other == AloneRun(3 - t).trace
               IN  \E k \in 0..Len(other) :
                       IsMerge(inference_trace, whole,
                               SubSeq(other, k + 1, Len(other)))

\* both calls have returned and the engine's trace is neither the trace of
\* the first call run alone nor that of the second
C26_Witness ==
    /\ BothReturned
    /\ \A t \in Callers : threads[t].engine = 1
    /\ inference_trace # AloneRun(1).trace
    /\ inference_trace # AloneRun(2).trace

=============================================================================
